---- MODULE Spec2Model ----
(***************************************************************************)
(* Verification model of the nalu-wind matrix-free gather / assembly core. *)
(*                                                                         *)
(*   SpecGather     the five SIMD gathers of StkSimdGatheredElementData.C  *)
(*                  run on connectivity tables as the map builder lays     *)
(*                  them out (full batches, last batch padded).            *)
(*   SpecGatherAny  the same gathers called with a table in which a lane   *)
(*                  (lane 0 included) or a single slot is invalid.         *)
(*   SpecMetric     a gather followed, for gathered coordinates, by        *)
(*                  volume_metric of LinearVolume.C; the evaluation is     *)
(*                  then repeated on the same table and field.             *)
(*   SpecVolume     the two overloads of volume_metric on coordinate views *)
(*                  of well-shaped, inverted and collapsed hexahedra, run  *)
(*                  again after a node was moved or an element translated. *)
(*   SpecAssemble   MatrixAssembler / RhsAssembler: a stream of entries is *)
(*                  written, then assemble() sorts, reduces and splits it. *)
(*   SpecReuse      the same assembler over several assemble() calls, its  *)
(*                  buffer possibly smaller than the stream written.       *)
(*   SpecPool       MemoryPool and the two assemblers that are handed its  *)
(*                  workspace pointer.                                     *)
(*   SpecClosure    gradient_boundary_closure: the scatter-accumulate of   *)
(*                  face contributions, one atomic add at a time.          *)
(*   SpecFixture    GradientBoundaryFixture / bc_residual on the nx^3 mesh *)
(*                  split over ranks: row maps, gather, closure, export.   *)
(*   SpecActuator   actuator_FAST_parse of ActuatorParsingFAST.C: the keys *)
(*                  of the actuator node, then readTurbineData on each     *)
(*                  Turbine<i> node in turn.                               *)
(***************************************************************************)
EXTENDS Integers, Sequences, FiniteSets, TLC

VARIABLES
  gkind,    \* which gather runs
  conn,     \* connectivity table: conn[b][x][n]
  field,    \* NgpField<double>: field[h] is the 3-vector stored at mesh index h
  gout,     \* the output view simd_element_field: gout[b][x][c][n]
  gdone,    \* batch indices the parallel_for has already run
  gidx,     \* the mesh_index each iteration resolved: gidx[b][x][n]
  derefs,   \* mesh indices handed to field.get so far
  gwrites,  \* set_data calls each output slot has received in this call
  gpc       \* "run" | "done" | "fault"

gatherVars == <<gkind, conn, field, gout, gidx, gdone, derefs, gwrites, gpc>>

VARIABLES
  akind,            \* "matrix" (MatrixAssembler) | "rhs" (RhsAssembler)
  owned_row_count,  \* rows below it are owned by this rank
  aIn,              \* the entries written for the next assemble, in write order
  aDev,             \* device structures: aDev.all, aDev.owned, aDev.shared
  aNum,             \* _num_rows, _num_nonzeros and their owned / shared parts
  apc,              \* "fill" | "assembled" | "aborted"
  nDataPtsToAssemble,  \* number of entries the device buffer is sized for
  aWork,            \* the pre-sized device buffer, one slot per entry
  aBuf,             \* the allocation the device buffer lives in
  aHost,            \* host mirrors: aHost.all, aHost.owned, aHost.shared
  aCalls,           \* assemble() calls that have completed before this one
  aTotal            \* entries written since construction

asmVars == <<akind, owned_row_count, aIn, aDev, aNum, apc,
             nDataPtsToAssemble, aWork, aBuf, aHost, aCalls, aTotal>>

VARIABLES
  cOffsets,  \* face offset view: cOffsets[b][x][n] is a row of the residual
  cQ,        \* q_face view: cQ[b][x][n]
  cAreas,    \* exposed area view: cAreas[b][x][d][n]
  cRes,      \* the residual view the closure accumulates into
  cRes0,     \* the residual as it was when the closure was called
  cPending,  \* <<b, x, n>> whose contribution has not been added yet
  cpc        \* "run" | "done"

closureVars == <<cOffsets, cQ, cAreas, cRes, cRes0, cPending, cpc>>

VARIABLES
  part,                  \* the decomposition: ranks, slab axis, slab -> rank
  fx,                    \* per rank: the fixture's maps and connectivity views
  owned_rhs,             \* per rank: Tpetra vector over the owned rows
  owned_and_shared_rhs,  \* per rank: Tpetra vector over owned + shared rows
  maxval,                \* per rank: the maximum the test compares
  tpc,                   \* per rank: "start" | "closed" | "exported" | "passed" | "failed"
  fxRef                  \* the residual of the same problem on a single rank

fixtureVars == <<part, fx, owned_rhs, owned_and_shared_rhs, maxval, tpc, fxRef>>

VARIABLES
  pN,        \* MemoryPool::_N, the size of the allocation
  pPtr,      \* MemoryPool::_d_workspace
  pAlive,    \* the pool has not been destroyed
  pReq,      \* per assembler: its nDataPtsToAssemble
  pWs,       \* per assembler: the workspace pointer it was given
  pRegions,  \* per assembler: the temporaries it laid out in the workspace
  pUser,     \* the assembler inside assemble(), or "none"
  pCalls     \* assemble() calls made so far

poolVars == <<pN, pPtr, pAlive, pReq, pWs, pRegions, pUser, pCalls>>

VARIABLES
  coeffs,   \* Coeffs<p> of the instantiated order: p, Nlin and the weights
  vol,      \* the view volume_metric returns: vol[b][x][n]
  vdone,    \* batch indices the "volume" parallel_for has already run
  vwrites,  \* assignments each slot of the volume view has received
  vpc,      \* "idle" | "run" | "done"
  ePass,    \* 1 in the first evaluation, 2 in the repeated one
  eFirst    \* what the first evaluation returned

metricVars == <<coeffs, vol, vdone, vwrites, vpc, ePass, eFirst>>

VARIABLES
  kNlin,    \* Coeffs<p> of the instantiated order
  kCoords,  \* the coordinates view handed to volume_metric: kCoords[b][x][c][n]
  kAlpha,   \* the alpha view of the weighted overload: kAlpha[b][x][n]
  kRan,     \* the overloads called on kCoords: "plain", "weighted"
  kVol,     \* what volume_metric(coordinates) returned
  kVolW,    \* what volume_metric(alpha, coordinates) returned
  kJac,     \* the Jacobians the last call formed: kJac[b][x][n]
  kPrev,    \* the results on the coordinates as they were before the edit
  kEdit     \* "none" | "interior" | "translate"

volumeVars == <<kNlin, kCoords, kAlpha, kRan, kVol, kVolW, kJac, kPrev, kEdit>>

VARIABLES
  actMeta,       \* the ActuatorMetaFAST as it was constructed, before the parse
  actMetaFAST,   \* the ActuatorMetaFAST actuator_FAST_parse fills, fi included
  y_node,        \* what has been looked up in the input so far
  iTurb,         \* the loop index of actuator_FAST_parse
  turbinesRead,  \* <<i, present>> of every Turbine<i> looked up, in order
  parsePc,       \* "idle" | "start" | "keys" | "turbines" | "returned" | "error"
  parseErr       \* the message of the exception, "" when none was raised

actuatorVars == <<actMeta, actMetaFAST, y_node, iTurb, turbinesRead, parsePc, parseErr>>

vars == <<gatherVars, asmVars, closureVars, fixtureVars, poolVars, metricVars,
          volumeVars, actuatorVars>>

notActuator == <<gatherVars, asmVars, closureVars, fixtureVars, poolVars, metricVars,
                 volumeVars>>

notGather == <<asmVars, closureVars, fixtureVars, poolVars, metricVars, volumeVars,
  actuatorVars>>

notAsm == <<gatherVars, closureVars, fixtureVars, poolVars, metricVars, volumeVars,
  actuatorVars>>

notClosure == <<gatherVars, asmVars, fixtureVars, poolVars, metricVars, volumeVars,
  actuatorVars>>

notFixture == <<gatherVars, asmVars, closureVars, poolVars, metricVars, volumeVars,
  actuatorVars>>

notPool == <<gatherVars, asmVars, closureVars, fixtureVars, metricVars, volumeVars,
  actuatorVars>>

notMetric == <<asmVars, closureVars, fixtureVars, poolVars, volumeVars,
  actuatorVars>>

notVolume == <<gatherVars, asmVars, closureVars, fixtureVars, poolVars, metricVars,
  actuatorVars>>

-----------------------------------------------------------------------------
(* Bounds *)

\* polynomial order p of the instantiated gathers
P == 1
\* stk simd_len: lanes per batch
SimdLen == 2
\* number of mesh entities the field is defined on
NumNodes == 3
\* largest number of entities in the gathered partition
MaxEntities == 4
\* rows 0 .. NumRows-1 can receive contributions
NumRows == 2
\* largest number of entries written before an assemble
MaxEntries == 3
\* largest number of boundary faces handed to one closure call
MaxFaces == 2
\* largest number of ranks the mesh is split over
MaxRanks == 4
\* largest number of assemble() calls on the assemblers of one pool
MaxPoolCalls == 2

-----------------------------------------------------------------------------
(* Parts of the state a specification leaves alone *)

EmptyCsr == [row_indices |-> << >>, row_counts |-> << >>,
             col_indices |-> << >>, values |-> << >>]

\* the members of a freshly constructed assembler
NewDev == [all |-> EmptyCsr, owned |-> EmptyCsr, shared |-> EmptyCsr]

NewNum == [num_rows |-> 0, num_nonzeros |-> 0,
           num_rows_owned |-> 0, num_nonzeros_owned |-> 0,
           num_rows_shared |-> 0, num_nonzeros_shared |-> 0]

\* a slot of a zeroed buffer
ZeroSlot == <<0, 0, 0>>

\* a zeroed buffer of n slots
Zeroed(n) == [i \in 1 .. n |-> ZeroSlot]

\* the allocation of the memory pool
PoolAllocation == 1

IdleAsm ==
  /\ akind = "matrix"
  /\ owned_row_count = 0
  /\ aIn = << >>
  /\ aDev = NewDev
  /\ aNum = NewNum
  /\ apc = "fill"
  /\ nDataPtsToAssemble = 0
  /\ aWork = << >>
  /\ aBuf = PoolAllocation
  /\ aHost = NewDev
  /\ aCalls = 0
  /\ aTotal = 0

IdleClosure ==
  /\ cOffsets = << >>
  /\ cQ = << >>
  /\ cAreas = << >>
  /\ cRes = << >>
  /\ cRes0 = << >>
  /\ cPending = {}
  /\ cpc = "done"

IdleFixture ==
  /\ part = [n |-> 0, axis |-> 1, map |-> << >>]
  /\ fx = << >>
  /\ owned_rhs = << >>
  /\ owned_and_shared_rhs = << >>
  /\ maxval = << >>
  /\ tpc = << >>
  /\ fxRef = << >>

IdlePool ==
  /\ pN = 0
  /\ pPtr = 0
  /\ pAlive = FALSE
  /\ pReq = << >>
  /\ pWs = << >>
  /\ pRegions = << >>
  /\ pUser = "none"
  /\ pCalls = 0

IdleGather ==
  /\ gkind = "node_scalar"
  /\ conn = << >>
  /\ field = << >>
  /\ gout = << >>
  /\ gidx = << >>
  /\ gdone = {}
  /\ derefs = {}
  /\ gwrites = << >>
  /\ gpc = "done"

\* Coeffs<1> at the nodes, the table a specification without a metric holds
NoCoeffs == [p |-> 1, Nlin |-> <<<<4, 0>>, <<0, 4>>>>, W |-> <<3, 3>>]

IdleMetric ==
  /\ coeffs = NoCoeffs
  /\ vol = << >>
  /\ vdone = {}
  /\ vwrites = << >>
  /\ vpc = "idle"
  /\ ePass = 1
  /\ eFirst = << >>

\* nothing of the input file has been looked up
UnreadNode == [actuator |-> << >>, keys |-> << >>, turbine |-> << >>]

\* no parse is running
IdleActuator ==
  /\ actMeta = << >>
  /\ actMetaFAST = << >>
  /\ y_node = UnreadNode
  /\ iTurb = 0
  /\ turbinesRead = << >>
  /\ parsePc = "idle"
  /\ parseErr = ""

IdleVolume ==
  /\ kNlin = NoCoeffs
  /\ kCoords = << >>
  /\ kAlpha = << >>
  /\ kRan = {}
  /\ kVol = << >>
  /\ kVolW = << >>
  /\ kJac = << >>
  /\ kPrev = << >>
  /\ kEdit = "none"

-----------------------------------------------------------------------------
(* Mesh indices and the field accessor *)

Handles == 1 .. NumNodes

\* the invalid_mesh_index marker stored in unused lanes
InvalidHandle == 0

Lanes == 0 .. (SimdLen - 1)

Comps == {0, 1, 2}

\* values a node can hold, one 3-vector per node
VecVals == {<<1, 2, 3>>, <<4, 5, 6>>}

\* values an out-of-range read can return
Garbage == {0, 9}

\* prior contents of an output view handed to a gather
Fill == {0, 7}

Strides == {1, 2}

GatherKinds ==
  {"elem_scalar", "elem_vector", "face_scalar", "face_vector", "node_scalar"}

\* a mesh index other than the invalid marker
valid_mesh_index(h) == h # InvalidHandle

\* a mesh index the field holds a value for
InRange(f, h) == h \in DOMAIN f

\* field.get(mesh_index, c) for an in-range mesh index
FieldGet(f, h, c) == f[h][c + 1]

\* Tensor-product stencil of one entity at order p: (k,j,i), (j,i) or the
\* node itself
ElemStencil(p) == {<<k, j, i>> : k \in 0 .. p, j \in 0 .. p, i \in 0 .. p}

FaceStencil(p) == {<<j, i>> : j \in 0 .. p, i \in 0 .. p}

NodeStencil == {<< >>}

StencilOf(kind, p) ==
  CASE kind \in {"elem_scalar", "elem_vector"} -> ElemStencil(p)
    [] kind \in {"face_scalar", "face_vector"} -> FaceStencil(p)
    [] OTHER -> NodeStencil

\* components each gather writes
CompsOf(kind) ==
  IF kind \in {"elem_vector", "face_vector"} THEN Comps ELSE {0}

\* the stencil node whose handle the validity test reads
Origin(kind) ==
  CASE kind \in {"elem_scalar", "elem_vector"} -> <<0, 0, 0>>
    [] kind \in {"face_scalar", "face_vector"} -> <<0, 0>>
    [] OTHER -> << >>

\* row-major position of a stencil node at order p
RECURSIVE Flat(_, _)
Flat(x, p) ==
  IF Len(x) = 0 THEN 0 ELSE x[Len(x)] + (p + 1) * Flat(SubSeq(x, 1, Len(x) - 1), p)

-----------------------------------------------------------------------------
(* The connectivity table as the map builder lays it out *)

NumBatches(count) == (count + SimdLen - 1) \div SimdLen

\* mesh index of stencil node x of entity e in a structured mesh
MeshNode(stride, e, x, p) == ((e * stride + Flat(x, p)) % NumNodes) + 1

\* entity e = b*simd_len + n sits in lane n of batch b; lanes past the last
\* entity hold the marker pad at every stencil node.  nodes[e][x] is the
\* table entry of stencil node x of entity e
BuildTable(count, nodes, stencil, pad) ==
  [b \in 0 .. (NumBatches(count) - 1) |->
    [x \in stencil |->
      [n \in Lanes |->
        IF b * SimdLen + n < count THEN nodes[b * SimdLen + n][x] ELSE pad]]]

BuildConn(kind, p, count, stride) ==
  BuildTable(count,
             [e \in 0 .. (count - 1) |->
               [x \in StencilOf(kind, p) |-> MeshNode(stride, e, x, p)]],
             StencilOf(kind, p), InvalidHandle)

Batches == DOMAIN conn

\* the stencil nodes of a table
StencilIn(t, index) == DOMAIN t[index]

\* the table with every stencil node of lane <<b, n>> invalidated
GhostLane(t, bn) ==
  [b \in DOMAIN t |->
    [x \in StencilIn(t, b) |->
      [n \in Lanes |->
        IF <<b, n>> = bn THEN InvalidHandle ELSE t[b][x][n]]]]

\* the table with stencil node x0 of lane <<b, n>> invalidated
HoleAt(t, bn, x0) ==
  [b \in DOMAIN t |->
    [x \in StencilIn(t, b) |->
      [n \in Lanes |->
        IF <<b, n>> = bn /\ x = x0 THEN InvalidHandle ELSE t[b][x][n]]]]

\* the far corner of the stencil
LastNode(kind, p) == [q \in 1 .. Len(Origin(kind)) |-> p]

-----------------------------------------------------------------------------
(* The gathers *)

\* variant: a padded lane falls back to lane 0's first stencil node
ElemMeshIndexOriginFallback(t, index, x, n) ==
  IF valid_mesh_index(t[index][<<0, 0, 0>>][n])
    THEN t[index][x][n]
    ELSE t[index][<<0, 0, 0>>][0]

\* stk_simd_scalar_field_gather_t / stk_simd_vector_field_gather_t
ElemMeshIndex(t, index, x, n) ==
  IF valid_mesh_index(t[index][<<0, 0, 0>>][n])
    THEN t[index][x][n]
    ELSE t[index][x][0]

\* variant: validity tested once per batch, on lane 0's handle
FaceMeshIndexLaneZeroTest(t, index, x, n) ==
  IF valid_mesh_index(t[index][<<0, 0>>][0])
    THEN t[index][x][n]
    ELSE t[index][x][0]

\* stk_simd_face_scalar_field_gather_t / stk_simd_face_vector_field_gather_t
FaceMeshIndex(t, index, x, n) ==
  IF valid_mesh_index(t[index][<<0, 0>>][n])
    THEN t[index][x][n]
    ELSE t[index][x][0]

\* variant: no fallback for a padded lane
NodeMeshIndexNoFallback(t, index, x, n) == t[index][<< >>][n]

\* stk_simd_scalar_node_gather
NodeMeshIndex(t, index, x, n) ==
  LET simd_mesh_index == t[index][<< >>][n]
  IN IF valid_mesh_index(simd_mesh_index)
       THEN simd_mesh_index
       ELSE t[index][<< >>][0]

MeshIndex(kind, t, index, x, n) ==
  CASE kind \in {"elem_scalar", "elem_vector"} -> ElemMeshIndex(t, index, x, n)
    [] kind \in {"face_scalar", "face_vector"} -> FaceMeshIndex(t, index, x, n)
    [] OTHER -> NodeMeshIndex(t, index, x, n)

\* mesh indices one batch iteration hands to field.get
BatchDerefs(kind, t, index) ==
  {MeshIndex(kind, t, index, x, n) : x \in StencilIn(t, index), n \in Lanes}

\* what field.get returns: the stored value, or for an out-of-range index
\* whatever the read of lane n happens to find
ReadField(f, h, c, n, g) ==
  IF InRange(f, h) THEN FieldGet(f, h, c) ELSE g[n]

\* stk::simd::set_data(view(index, x, c), n, field.get(mesh_index, c)) for
\* every lane, stencil node and component of one batch
BatchValues(kind, t, f, index, g) ==
  [x \in StencilIn(t, index) |->
    [c \in CompsOf(kind) |->
      [n \in Lanes |-> ReadField(f, MeshIndex(kind, t, index, x, n), c, n, g)]]]

\* the value of the local mesh_index at every lane and stencil node of a batch
BatchIndices(kind, t, index) ==
  [x \in StencilIn(t, index) |-> [n \in Lanes |-> MeshIndex(kind, t, index, x, n)]]

NoGarbage == [n \in Lanes |-> 0]

\* what the out-of-range reads of one batch iteration can return
GarbageOf(kind, t, f, index) ==
  IF \A h \in BatchDerefs(kind, t, index) : InRange(f, h)
    THEN {NoGarbage}
    ELSE [Lanes -> Garbage]

\* variant: every iteration writes the slots of batch 0
OutputBatchShared(index) == 0

\* the batch of simd_element_field the iteration at index writes
OutputBatch(index) == index

\* variant: a lane that already holds a nonzero value is left as it is
set_data_once(old, new) ==
  [x \in DOMAIN new |-> [c \in DOMAIN new[x] |-> [n \in DOMAIN new[x][c] |->
    IF old[x][c][n] # 0 THEN old[x][c][n] ELSE new[x][c][n]]]]

\* stk::simd::set_data over the slots of one batch: every lane is overwritten
set_data(old, new) == new

\* the set_data calls of one iteration: one per stencil node, component, lane
CountWrites(w) ==
  [x \in DOMAIN w |-> [c \in DOMAIN w[x] |-> [n \in DOMAIN w[x][c] |->
    w[x][c][n] + 1]]]

\* one iteration of the parallel_for body (the lambda at index)
GatherBatch(index) ==
  /\ gpc = "run"
  /\ index \in Batches \ gdone
  /\ \E g \in GarbageOf(gkind, conn, field, index) :
       gout' = [gout EXCEPT ![OutputBatch(index)] =
                  set_data(@, BatchValues(gkind, conn, field, index, g))]
  /\ gwrites' = [gwrites EXCEPT ![OutputBatch(index)] = CountWrites(@)]
  /\ gidx' = [gidx EXCEPT ![index] = BatchIndices(gkind, conn, index)]
  /\ derefs' = derefs \cup BatchDerefs(gkind, conn, index)
  /\ gdone' = gdone \cup {index}
  /\ UNCHANGED <<gkind, conn, field, gpc>>
  /\ UNCHANGED notGather

\* one iteration that reads the field at an out-of-range index and traps
GatherBatchFault(index) ==
  /\ gpc = "run"
  /\ index \in Batches \ gdone
  /\ \E h \in BatchDerefs(gkind, conn, index) : ~InRange(field, h)
  /\ derefs' = derefs \cup BatchDerefs(gkind, conn, index)
  /\ gpc' = "fault"
  /\ UNCHANGED <<gkind, conn, field, gout, gidx, gdone, gwrites>>
  /\ UNCHANGED notGather

\* the parallel_for has run every index of [0, conn.extent(0))
GatherReturn ==
  /\ gpc = "run"
  /\ gdone = Batches
  /\ gpc' = "done"
  /\ UNCHANGED <<gkind, conn, field, gout, gidx, gdone, derefs, gwrites>>
  /\ UNCHANGED notGather

EmptyView(kind, t, v) ==
  [b \in DOMAIN t |->
    [x \in StencilIn(t, b) |-> [c \in CompsOf(kind) |-> [n \in Lanes |-> v]]]]

NoIndices(kind, t) ==
  [b \in DOMAIN t |-> [x \in StencilIn(t, b) |-> [n \in Lanes |-> InvalidHandle]]]

\* the state a gather is called in: a table, a field and an output view
InitGatherOn(kind, t, fields, fills) ==
  /\ gkind = kind
  /\ conn = t
  /\ field \in fields
  /\ \E v \in fills : gout = EmptyView(kind, t, v)
  /\ gidx = NoIndices(kind, t)
  /\ gdone = {}
  /\ derefs = {}
  /\ gwrites = EmptyView(kind, t, 0)
  /\ gpc = "run"

InitGatherWith(kind, t, fills) == InitGatherOn(kind, t, [Handles -> VecVals], fills)

InitGather ==
  /\ \E kind \in GatherKinds, p \in 1 .. P, count \in 0 .. MaxEntities, stride \in Strides :
       InitGatherWith(kind, BuildConn(kind, p, count, stride), Fill)
  /\ IdleAsm
  /\ IdleClosure
  /\ IdleFixture
  /\ IdlePool
  /\ IdleMetric
  /\ IdleVolume
  /\ IdleActuator

\* the built tables, and those with one lane or one far-corner slot invalidated
AnyConn(kind, p) ==
  LET built == {BuildConn(kind, p, count, stride) :
                  count \in 0 .. MaxEntities, stride \in Strides}
  IN built
       \cup UNION {{GhostLane(t, <<b, n>>) : b \in DOMAIN t, n \in Lanes} : t \in built}
       \cup UNION {{HoleAt(t, <<b, n>>, LastNode(kind, p)) : b \in DOMAIN t, n \in Lanes} :
                     t \in built}

InitGatherAny ==
  /\ \E kind \in GatherKinds, p \in 1 .. P : \E t \in AnyConn(kind, p) :
       InitGatherWith(kind, t, {0})
  /\ IdleAsm
  /\ IdleClosure
  /\ IdleFixture
  /\ IdlePool
  /\ IdleMetric
  /\ IdleVolume
  /\ IdleActuator

NextGather ==
  \/ \E index \in Batches : GatherBatch(index)
  \/ GatherReturn

NextGatherAny ==
  \/ \E index \in Batches : GatherBatch(index)
  \/ \E index \in Batches : GatherBatchFault(index)
  \/ GatherReturn

SpecGather == InitGather /\ [][NextGather]_vars

SpecGatherAny == InitGatherAny /\ [][NextGatherAny]_vars

-----------------------------------------------------------------------------
(* MatrixAssembler / RhsAssembler *)

Rows == 0 .. (NumRows - 1)

Cols == {0, 1}

Vals == {1, 2}

\* column ids an entry of each assembler can carry (a rhs entry has none)
ColsOf(kind) == IF kind = "matrix" THEN Cols ELSE {0}

\* an entry is <<row, col, value>>
KeyOf(e) == <<e[1], e[2]>>

KeyLess(a, b) == a[1] < b[1] \/ (a[1] = b[1] /\ a[2] < b[2])

\* variant: the sort key is the row alone
RECURSIVE InsertByRow(_, _)
InsertByRow(e, s) ==
  IF s = << >> THEN <<e>>
  ELSE IF e[1] < Head(s)[1] THEN <<e>> \o s
  ELSE <<Head(s)>> \o InsertByRow(e, Tail(s))

RECURSIVE SortByRowOnly(_)
SortByRowOnly(s) ==
  IF s = << >> THEN << >>
  ELSE InsertByRow(s[Len(s)], SortByRowOnly(SubSeq(s, 1, Len(s) - 1)))

RECURSIVE InsertByKey(_, _)
InsertByKey(e, s) ==
  IF s = << >> THEN <<e>>
  ELSE IF KeyLess(KeyOf(e), KeyOf(Head(s))) THEN <<e>> \o s
  ELSE <<Head(s)>> \o InsertByKey(e, Tail(s))

\* sort by (row, col) key
RECURSIVE SortByKey(_)
SortByKey(s) ==
  IF s = << >> THEN << >>
  ELSE InsertByKey(s[Len(s)], SortByKey(SubSeq(s, 1, Len(s) - 1)))

\* variant: of a run of equal keys the last value written stays
RECURSIVE ReduceKeepLast(_)
ReduceKeepLast(s) ==
  IF Len(s) <= 1 THEN s
  ELSE LET r == ReduceKeepLast(Tail(s))
       IN IF KeyOf(Head(s)) = KeyOf(Head(r)) THEN r ELSE <<Head(s)>> \o r

\* reduce a key-sorted array by summation over runs of equal keys
RECURSIVE ReduceByKey(_)
ReduceByKey(s) ==
  IF Len(s) <= 1 THEN s
  ELSE LET r == ReduceByKey(Tail(s))
       IN IF KeyOf(Head(s)) = KeyOf(Head(r))
            THEN <<<<Head(r)[1], Head(r)[2], Head(s)[3] + Head(r)[3]>>>> \o Tail(r)
            ELSE <<Head(s)>> \o r

\* the distinct rows of a row-sorted array, in order
RECURSIVE RowsIn(_)
RowsIn(s) ==
  IF s = << >> THEN << >>
  ELSE LET r == RowsIn(Tail(s))
       IN IF r # << >> /\ Head(r) = Head(s)[1] THEN r ELSE <<Head(s)[1]>> \o r

\* compressed row form of a sorted, reduced array
ToCsr(s) ==
  LET rows == RowsIn(s)
  IN [row_indices |-> rows,
      row_counts |-> [q \in 1 .. Len(rows) |->
                        Cardinality({m \in 1 .. Len(s) : s[m][1] = rows[q]})],
      col_indices |-> [m \in 1 .. Len(s) |-> s[m][2]],
      values |-> [m \in 1 .. Len(s) |-> s[m][3]]]

\* variant: the boundary row counts as owned
IsOwnedRowInclusive(row, owned) == row <= owned

\* the predicate that splits the assembled array
IsOwnedRow(row, owned) == row < owned

OwnedPart(s, owned) == SelectSeq(s, LAMBDA e : IsOwnedRow(e[1], owned))

SharedPart(s, owned) == SelectSeq(s, LAMBDA e : ~IsOwnedRow(e[1], owned))

\* variant: a write past the last slot lands behind the buffer
WriteSlotUnchecked(work, i, e) ==
  IF i <= Len(work) THEN [work EXCEPT ![i] = e] ELSE Append(work, e)

\* the write of entry e at its precomputed offset i; the buffer has no slot
\* past its last one
WriteSlot(work, i, e) ==
  IF i <= Len(work) THEN [work EXCEPT ![i] = e] ELSE work

\* the kernels write one more entry
Contribute(row, col, val) ==
  /\ apc = "fill"
  /\ aTotal < MaxEntries
  /\ aIn' = Append(aIn, <<row, col, val>>)
  /\ aWork' = WriteSlot(aWork, Len(aIn) + 1, <<row, col, val>>)
  /\ aTotal' = aTotal + 1
  /\ UNCHANGED <<akind, owned_row_count, aDev, aNum, apc,
                 nDataPtsToAssemble, aBuf, aHost, aCalls>>
  /\ UNCHANGED notAsm

\* variant: the entry count is never compared with the buffer size
OverflowsNever(count, size) == FALSE

\* the observed entry count exceeds the pre-sized buffer
Overflows(count, size) == count > size

\* the slots of the buffer that hold the entries of this call
Presented(work, count) ==
  SubSeq(work, 1, IF count <= Len(work) THEN count ELSE Len(work))

\* variant: equal keys are reduced where they are adjacent as written
ReducedAsWritten(entries) == ReduceByKey(entries)

\* the sorted and reduced array of a buffer of entries
Reduced(entries) == ReduceByKey(SortByKey(entries))

\* the three device structures of a sorted and reduced array
DeviceOf(reduced, owned) ==
  [all |-> ToCsr(reduced),
   owned |-> ToCsr(OwnedPart(reduced, owned)),
   shared |-> ToCsr(SharedPart(reduced, owned))]

\* variant: the shared mirror is not refreshed
MirrorsSkipShared(dev, host) ==
  [all |-> dev.all, owned |-> dev.owned, shared |-> host.shared]

\* copyCSRMatrixToHost, copyOwnedCSRMatrixToHost, copySharedCSRMatrixToHost
\* (copyRhsVectorToHost, ...): the device structures copied to the host
MirrorsOf(dev, host) ==
  [all |-> dev.all, owned |-> dev.owned, shared |-> dev.shared]

\* the buffer an assemble call works in: the one it was given
BufferOfCall(buf) == buf

\* assemble(): sort by key, reduce equal keys, split owned / shared, copy
\* to the host; more entries than the buffer was sized for abort the run
Assemble ==
  /\ apc = "fill"
  /\ IF Overflows(Len(aIn), nDataPtsToAssemble)
       THEN /\ apc' = "aborted"
            /\ UNCHANGED <<aDev, aNum, aHost, aBuf>>
       ELSE LET reduced == Reduced(Presented(aWork, Len(aIn)))
                own == OwnedPart(reduced, owned_row_count)
                shr == SharedPart(reduced, owned_row_count)
                dev == DeviceOf(reduced, owned_row_count)
            IN /\ aDev' = dev
               /\ aNum' = [num_rows |-> Len(RowsIn(reduced)),
                           num_nonzeros |-> Len(reduced),
                           num_rows_owned |-> Len(RowsIn(own)),
                           num_nonzeros_owned |-> Len(own),
                           num_rows_shared |-> Len(RowsIn(shr)),
                           num_nonzeros_shared |-> Len(shr)]
               /\ aHost' = MirrorsOf(dev, aHost)
               /\ aBuf' = BufferOfCall(aBuf)
               /\ apc' = "assembled"
  /\ UNCHANGED <<akind, owned_row_count, aIn, nDataPtsToAssemble, aWork,
                 aCalls, aTotal>>
  /\ UNCHANGED notAsm

\* variant: the buffer keeps the entries of the call before
KeptBuffer(work) == work

\* the buffer re-zeroed for the next call
Rezeroed(work) == Zeroed(Len(work))

\* between two assemble() calls: the buffer is re-zeroed and the kernels
\* start writing the next stream
Refill ==
  /\ apc = "assembled"
  /\ aIn # << >>
  /\ aTotal < MaxEntries
  /\ aIn' = << >>
  /\ aWork' = Rezeroed(aWork)
  /\ aCalls' = aCalls + 1
  /\ apc' = "fill"
  /\ UNCHANGED <<akind, owned_row_count, aDev, aNum,
                 nDataPtsToAssemble, aBuf, aHost, aTotal>>
  /\ UNCHANGED notAsm

\* variant: the shared row count is read from the owned member
getNumRowsSharedFromOwned == aNum.num_rows_owned

getNumRows == aNum.num_rows

getNumRowsOwned == aNum.num_rows_owned

getNumRowsShared == aNum.num_rows_shared

getNumNonzeros == aNum.num_nonzeros

getNumNonzerosOwned == aNum.num_nonzeros_owned

getNumNonzerosShared == aNum.num_nonzeros_shared

\* the members of an assembler constructed for a buffer of size entries
InitAssembler(size) ==
  /\ akind \in {"matrix", "rhs"}
  /\ aIn = << >>
  /\ aDev = NewDev
  /\ aNum = NewNum
  /\ apc = "fill"
  /\ nDataPtsToAssemble = size
  /\ aWork = Zeroed(size)
  /\ aBuf = PoolAllocation
  /\ aHost = NewDev
  /\ aCalls = 0
  /\ aTotal = 0

InitAssemble ==
  /\ owned_row_count \in 0 .. NumRows
  /\ InitAssembler(MaxEntries)
  /\ IdleGather
  /\ IdleClosure
  /\ IdleFixture
  /\ IdlePool
  /\ IdleMetric
  /\ IdleVolume
  /\ IdleActuator

NextAssemble ==
  \/ \E row \in Rows, col \in ColsOf(akind), val \in Vals : Contribute(row, col, val)
  \/ Assemble

SpecAssemble == InitAssemble /\ [][NextAssemble]_vars

\* an assembler used for several assemble() calls, with a buffer that may be
\* sized below the number of entries the kernels write
InitReuse ==
  /\ owned_row_count = 1
  /\ \E size \in {MaxEntries - 1, MaxEntries} : InitAssembler(size)
  /\ IdleGather
  /\ IdleClosure
  /\ IdleFixture
  /\ IdlePool
  /\ IdleMetric
  /\ IdleVolume
  /\ IdleActuator

NextReuse ==
  \/ \E row \in Rows, col \in ColsOf(akind), val \in Vals : Contribute(row, col, val)
  \/ Assemble
  \/ Refill

SpecReuse == InitReuse /\ [][NextReuse]_vars

-----------------------------------------------------------------------------
(* gradient_boundary_closure *)

\* polynomial order of the boundary fixture
order == 1

\* boundary scalar of the fixture, in tenths
some_value == -23

\* rows of the residual view a closure call accumulates into
MaxRows == 5

\* turbines of an input file
MaxTurbines == 2

\* the offset a padded lane of the face offset view holds
InvalidOffset == -1

valid_offset(o) == o # InvalidOffset

\* stencil node at row-major position q of a face at order p
FaceNodeAt(q, p) == <<q \div (p + 1), q % (p + 1)>>

FaceNodes(p) == (p + 1) * (p + 1)

\* the <<b, x, n>> of a face view in loop order: batch, lane, stencil node
ItemAt(k, p) ==
  <<k \div (SimdLen * FaceNodes(p)),
    FaceNodeAt(k % FaceNodes(p), p),
    (k \div FaceNodes(p)) % SimdLen>>

NumItems(offsets, p) == Cardinality(DOMAIN offsets) * SimdLen * FaceNodes(p)

\* the lanes that hold a face: padded lanes contribute nothing
ValidItems(offsets, p) ==
  {it \in {ItemAt(k, p) : k \in 0 .. (NumItems(offsets, p) - 1)} :
     valid_offset(offsets[it[1]][it[2]][it[3]])}

\* area-weighted flux of one face node: q * (exposed area vector)
FaceFlux(q, areas, it) ==
  LET flux(d) == q[it[1]][it[2]][it[3]] * areas[it[1]][it[2]][d][it[3]]
  IN <<flux(0), flux(1), flux(2)>>

\* variant: the slot is stored into instead of added to
ScatterStore(res, row, v) == [res EXCEPT ![row] = v]

\* Kokkos::atomic_add of the three components into the node's residual slot
ScatterAdd(res, row, v) ==
  [res EXCEPT ![row] = <<res[row][1] + v[1], res[row][2] + v[2], res[row][3] + v[3]>>]

\* the accumulation of one face node of one lane
ClosureItem(offsets, q, areas, res, it) ==
  ScatterAdd(res, offsets[it[1]][it[2]][it[3]], FaceFlux(q, areas, it))

\* one iteration of the parallel_for: the lanes and face nodes of batch b
\* from position k on, in loop order (a view without rows takes nothing)
RECURSIVE ClosureBatch(_, _, _, _, _, _, _)
ClosureBatch(offsets, q, areas, res, b, k, p) ==
  IF k = SimdLen * FaceNodes(p) \/ DOMAIN res = {} THEN res
  ELSE LET it == ItemAt(b * SimdLen * FaceNodes(p) + k, p)
       IN ClosureBatch(offsets, q, areas,
                       IF valid_offset(offsets[it[1]][it[2]][it[3]])
                         THEN ClosureItem(offsets, q, areas, res, it)
                         ELSE res,
                       b, k + 1, p)

\* the whole call with the batches b, b+1, ... taken one after the other
RECURSIVE ClosureFrom(_, _, _, _, _, _)
ClosureFrom(offsets, q, areas, res, b, p) ==
  IF b \notin DOMAIN offsets \/ DOMAIN res = {} THEN res
  ELSE ClosureFrom(offsets, q, areas,
                   ClosureBatch(offsets, q, areas, res, b, 0, p), b + 1, p)

gradient_boundary_closure(offsets, q, areas, res) ==
  ClosureFrom(offsets, q, areas, res, 0, order)

\* Kokkos::deep_copy(view, value) of a face scalar view
FaceScalarFill(offsets, value) ==
  [b \in DOMAIN offsets |-> [x \in DOMAIN offsets[b] |-> [n \in Lanes |-> value]]]

\* putScalar(value) of a three-component vector over rows 0 .. n-1
putScalar(n, value) == [row \in 0 .. (n - 1) |-> <<value, value, value>>]

\* offsets of count faces laid out on MaxRows nodes
ClosureOffsets(count, stride) ==
  BuildTable(count,
             [e \in 0 .. (count - 1) |->
               [x \in FaceStencil(order) |->
                 (e * stride + Flat(x, order)) % MaxRows]],
             FaceStencil(order), InvalidOffset)

\* area vectors that differ from face node to face node
ClosureAreas(offsets) ==
  [b \in DOMAIN offsets |->
    [x \in DOMAIN offsets[b] |->
      [d \in Comps |->
        [n \in Lanes |->
          LET k == (b * SimdLen + n) * FaceNodes(order) + Flat(x, order)
          IN CASE d = 0 -> 2 ^ k [] d = 1 -> k + 1 [] OTHER -> 1]]]]

\* one thread adds the contribution of one face node
ClosureAdd(it) ==
  /\ cpc = "run"
  /\ it \in cPending
  /\ cRes' = ClosureItem(cOffsets, cQ, cAreas, cRes, it)
  /\ cPending' = cPending \ {it}
  /\ UNCHANGED <<cOffsets, cQ, cAreas, cRes0, cpc>>
  /\ UNCHANGED notClosure

\* the parallel_for has run every iteration
ClosureReturn ==
  /\ cpc = "run"
  /\ cPending = {}
  /\ cpc' = "done"
  /\ UNCHANGED <<cOffsets, cQ, cAreas, cRes, cRes0, cPending>>
  /\ UNCHANGED notClosure

InitClosure ==
  /\ \E count \in 0 .. MaxFaces, stride \in Strides, v \in Fill :
       /\ cOffsets = ClosureOffsets(count, stride)
       /\ cRes0 = putScalar(MaxRows, v)
  /\ cQ = FaceScalarFill(cOffsets, some_value)
  /\ cAreas = ClosureAreas(cOffsets)
  /\ cRes = cRes0
  /\ cPending = ValidItems(cOffsets, order)
  /\ cpc = "run"
  /\ IdleGather
  /\ IdleAsm
  /\ IdleFixture
  /\ IdlePool
  /\ IdleMetric
  /\ IdleVolume
  /\ IdleActuator

NextClosure ==
  \/ \E it \in cPending : ClosureAdd(it)
  \/ ClosureReturn

SpecClosure == InitClosure /\ [][NextClosure]_vars

-----------------------------------------------------------------------------
(* The GradientBoundaryFixture mesh and its decomposition over ranks *)

\* cells along each edge of the cube
nx == 4

\* edge length of the cube
scale == 1

NodesPerEdge == nx + 1

NumMeshNodes == NodesPerEdge * NodesPerEdge * NodesPerEdge

\* global id of the node at grid position c = <<i, j, k>>
NodeAt(c) == 1 + c[1] + NodesPerEdge * c[2] + NodesPerEdge * NodesPerEdge * c[3]

\* grid position of the node with global id g
CoordOf(g) ==
  <<(g - 1) % NodesPerEdge,
    ((g - 1) \div NodesPerEdge) % NodesPerEdge,
    (g - 1) \div (NodesPerEdge * NodesPerEdge)>>

\* the ways to cut the nx slabs of cells along one axis into n rank blocks
SlabMaps(n) ==
  {m \in [1 .. nx -> 0 .. (n - 1)] :
     /\ m[1] = 0
     /\ m[nx] = n - 1
     /\ \A s \in 1 .. (nx - 1) : m[s + 1] - m[s] \in {0, 1}}

Partitions ==
  {[n |-> n, axis |-> a, map |-> m] :
     n \in 1 .. MaxRanks, a \in 1 .. 3, m \in [1 .. nx -> 0 .. (MaxRanks - 1)]}

SlabPartitions ==
  {pt \in Partitions : pt.map \in SlabMaps(pt.n) /\ (pt.n = 1 => pt.axis = 1)}

SingleRank == [n |-> 1, axis |-> 1, map |-> [s \in 1 .. nx |-> 0]]

RanksOf(pt) == 0 .. (pt.n - 1)

\* rank of the cell at grid position c
CellRank(pt, c) == pt.map[c[pt.axis] + 1]

\* ranks with a cell that has node g as a corner
RanksAt(pt, g) ==
  LET c == CoordOf(g)[pt.axis]
  IN {pt.map[s] : s \in {c, c + 1} \cap (1 .. nx)}

Touches(pt, r, g) == r \in RanksAt(pt, g)

\* the mesh database's ownership rule: the lowest rank that has the node
Owner(pt, g) == CHOOSE r \in RanksAt(pt, g) : \A q \in RanksAt(pt, g) : r <= q

GlobalIds == [g \in 1 .. NumMeshNodes |-> g]

\* the coordinate field on a rank, in units of 1/nx
coordinate_field(pt, r) ==
  [g \in {h \in 1 .. NumMeshNodes : Touches(pt, r, h)} |->
    [c \in 1 .. 3 |-> scale * CoordOf(g)[c]]]

\* the two axes tangent to a face normal to axis a, with e_b1 x e_b2 = e_a
Tangents(a) == CASE a = 1 -> <<2, 3>> [] a = 2 -> <<3, 1>> [] OTHER -> <<1, 2>>

NumBoundaryFaces == 6 * nx * nx

\* boundary face id: normal axis, side (0 low, 1 high), position in the side
FaceOf(id) ==
  [axis |-> (id \div (2 * nx * nx)) + 1,
   side |-> (id \div (nx * nx)) % 2,
   u |-> (id \div nx) % nx,
   v |-> id % nx]

\* the cell a boundary face belongs to
FaceCell(f) ==
  LET t == Tangents(f.axis)
  IN [c \in 1 .. 3 |->
       IF c = f.axis THEN (IF f.side = 1 THEN nx - 1 ELSE 0)
       ELSE IF c = t[1] THEN f.u ELSE f.v]

\* global id of node <<j, i>> of a boundary face, numbered so that the
\* face normal points out of the cube
FaceNode(f, x) ==
  LET t == Tangents(f.axis)
      a1 == IF f.side = 1 THEN x[2] ELSE x[1]
      a2 == IF f.side = 1 THEN x[1] ELSE x[2]
  IN NodeAt([c \in 1 .. 3 |->
       IF c = f.axis THEN (IF f.side = 1 THEN nx ELSE 0)
       ELSE IF c = t[1] THEN f.u + a1 ELSE f.v + a2])

\* boundary faces of the cells of rank r, in id order
RankFaces(pt, r) ==
  LET OnRank(id) == CellRank(pt, FaceCell(FaceOf(id))) = r
  IN SelectSeq([k \in 1 .. NumBoundaryFaces |-> k - 1], OnRank)

-----------------------------------------------------------------------------
(* Row maps and connectivity views of the fixture *)

\* Tpetra::Map::getLocalElement
getLocalElement(map, g) == (CHOOSE q \in 1 .. Len(map) : map[q] = g) - 1

\* rows of the nodes the rank owns, in global id order
make_owned_row_map(pt, r) ==
  LET IsOwned(g) == Touches(pt, r, g) /\ Owner(pt, g) = r
  IN SelectSeq(GlobalIds, IsOwned)

\* variant: every node of the rank in global id order, owned or not
RowMapInIdOrder(pt, r) ==
  LET IsLocal(g) == Touches(pt, r, g)
  IN SelectSeq(GlobalIds, IsLocal)

\* the owned rows followed by the rows of the nodes another rank owns
make_owned_and_shared_row_map(pt, r) ==
  LET IsShared(g) == Touches(pt, r, g) /\ Owner(pt, g) # r
  IN make_owned_row_map(pt, r) \o SelectSeq(GlobalIds, IsShared)

\* local node -> local row of the owned and shared map
make_stk_lid_to_tpetra_lid_map(pt, r, map) ==
  [g \in {h \in 1 .. NumMeshNodes : Touches(pt, r, h)} |-> getLocalElement(map, g)]

\* mesh indices of the nodes of the boundary faces of a rank
face_node_map(pt, r) ==
  LET faces == RankFaces(pt, r)
  IN BuildTable(Len(faces),
                [e \in 0 .. (Len(faces) - 1) |->
                  [x \in FaceStencil(order) |-> FaceNode(FaceOf(faces[e + 1]), x)]],
                FaceStencil(order), InvalidHandle)

\* local rows of the nodes of the boundary faces of a rank
face_offsets(pt, r, entToLID) ==
  LET faces == RankFaces(pt, r)
  IN BuildTable(Len(faces),
                [e \in 0 .. (Len(faces) - 1) |->
                  [x \in FaceStencil(order) |->
                    entToLID[FaceNode(FaceOf(faces[e + 1]), x)]]],
                FaceStencil(order), InvalidOffset)

\* what the fixture's constructor builds on rank r
GradientBoundaryFixture(pt, r) ==
  LET osm == make_owned_and_shared_row_map(pt, r)
      lid == make_stk_lid_to_tpetra_lid_map(pt, r, osm)
  IN [owned_map |-> make_owned_row_map(pt, r),
      owned_and_shared_map |-> osm,
      elid |-> lid,
      grad_bc_faces |-> face_node_map(pt, r),
      grad_bc_offsets |-> face_offsets(pt, r, lid),
      coords |-> coordinate_field(pt, r)]

-----------------------------------------------------------------------------
(* TEST_F(GradientBoundaryFixture, bc_residual) *)

Abs(v) == IF v < 0 THEN -v ELSE v

Max(a, b) == IF a < b THEN b ELSE a

Cross(a, b) ==
  <<a[2] * b[3] - a[3] * b[2], a[3] * b[1] - a[1] * b[3], a[1] * b[2] - a[2] * b[1]>>

\* residual values are kept in units of 1/(40 nx^2): some_value is in tenths
\* and an area vector is four times the area in units of 1/nx^2
ResidualUnit == 4 * nx * nx

\* stk_simd_face_vector_field_gather over every batch of the table
stk_simd_face_vector_field_gather(t, f) ==
  [b \in DOMAIN t |-> BatchValues("face_vector", t, f, b, NoGarbage)]

\* area vector of each node of a linear face: (dX/di x dX/dj) / 4, stored
\* times four
exposed_areas(face_coords) ==
  [b \in DOMAIN face_coords |->
    [x \in DOMAIN face_coords[b] |->
      LET area(n) ==
            Cross([c \in 1 .. 3 |-> face_coords[b][<<x[1], 1>>][c - 1][n]
                                      - face_coords[b][<<x[1], 0>>][c - 1][n]],
                  [c \in 1 .. 3 |-> face_coords[b][<<1, x[2]>>][c - 1][n]
                                      - face_coords[b][<<0, x[2]>>][c - 1][n]])
      IN [d \in Comps |-> [n \in Lanes |-> area(n)[d + 1]]]]]

\* the rank-local partial sums: q_face, the gathered face coordinates, the
\* exposed areas and the closure into the zeroed owned and shared vector
LocalResidual(f) ==
  LET q_face == FaceScalarFill(f.grad_bc_faces, some_value)
      face_coords == stk_simd_face_vector_field_gather(f.grad_bc_faces, f.coords)
  IN gradient_boundary_closure(f.grad_bc_offsets, q_face,
                               exposed_areas(face_coords),
                               putScalar(Len(f.owned_and_shared_map), 0))

\* Tpetra combine modes
Combine(cm, old, in) ==
  CASE cm = "ADD" -> <<old[1] + in[1], old[2] + in[2], old[3] + in[3]>>
    [] cm = "INSERT" -> in

\* what the export delivers to the owner of row g: the entries the ranks
\* r, r+1, ... hold for g, combined into acc one after the other
RECURSIVE ExportRow(_, _, _, _, _, _, _)
ExportRow(pt, f, src, g, r, acc, cm) ==
  IF r = pt.n THEN acc
  ELSE ExportRow(pt, f, src, g, r + 1,
                 IF g \in DOMAIN f[r].elid
                   THEN Combine(cm, acc, src[r][f[r].elid[g]])
                   ELSE acc,
                 cm)

\* target.doExport(source, exporter, cm) as seen by rank o
doExport(pt, f, target, src, o, cm) ==
  [l \in DOMAIN target |->
    ExportRow(pt, f, src, f[o].owned_map[l + 1], 0, target[l], cm)]

\* variant: the export replaces instead of adding
ExportInsert(pt, f, src, o) ==
  doExport(pt, f, putScalar(Len(f[o].owned_map), 0), src, o, "INSERT")

\* owned_rhs.putScalar(0.); owned_rhs.doExport(owned_and_shared_rhs, exporter, ADD)
ExportOwned(pt, f, src, o) ==
  doExport(pt, f, putScalar(Len(f[o].owned_map), 0), src, o, "ADD")

\* the loop over the local length: maxval = max(maxval, abs(view_h(k, 0)))
RECURSIVE MaxAbsFrom(_, _, _)
MaxAbsFrom(view, k, m) ==
  IF k \notin DOMAIN view THEN m
  ELSE MaxAbsFrom(view, k + 1, Max(m, Abs(view[k][1])))

\* the right-hand side of the assertion
ExpectedMaxval == Abs((some_value * ResidualUnit) \div (scale * nx * scale * nx))

\* rank r runs the test up to the closure
BoundaryClosure(r) ==
  /\ r \in DOMAIN tpc
  /\ tpc[r] = "start"
  /\ owned_and_shared_rhs' =
       [owned_and_shared_rhs EXCEPT ![r] = LocalResidual(fx[r])]
  /\ tpc' = [tpc EXCEPT ![r] = "closed"]
  /\ UNCHANGED <<part, fx, owned_rhs, maxval, fxRef>>
  /\ UNCHANGED notFixture

\* ranks that hold a row rank o owns
Senders(o) ==
  {r \in DOMAIN fx :
     \E q \in 1 .. Len(fx[o].owned_map) : fx[o].owned_map[q] \in DOMAIN fx[r].elid}

\* rank o receives the export once every rank that sends to it has its sums
Export(o) ==
  /\ o \in DOMAIN tpc
  /\ tpc[o] = "closed"
  /\ \A r \in Senders(o) : tpc[r] # "start"
  /\ owned_rhs' =
       [owned_rhs EXCEPT ![o] = ExportOwned(part, fx, owned_and_shared_rhs, o)]
  /\ tpc' = [tpc EXCEPT ![o] = "exported"]
  /\ UNCHANGED <<part, fx, owned_and_shared_rhs, maxval, fxRef>>
  /\ UNCHANGED notFixture

\* rank o takes the maximum and compares it
CheckMaxval(o) ==
  /\ o \in DOMAIN tpc
  /\ tpc[o] = "exported"
  /\ LET m == MaxAbsFrom(owned_rhs[o], 0, -1)
     IN /\ maxval' = [maxval EXCEPT ![o] = m]
        /\ tpc' = [tpc EXCEPT ![o] = IF m = ExpectedMaxval THEN "passed" ELSE "failed"]
  /\ UNCHANGED <<part, fx, owned_rhs, owned_and_shared_rhs, fxRef>>
  /\ UNCHANGED notFixture

\* the residual of the whole mesh on one rank, by global id
SingleRankResidual ==
  LET f == GradientBoundaryFixture(SingleRank, 0)
      res == LocalResidual(f)
  IN [g \in 1 .. NumMeshNodes |-> res[f.elid[g]]]

InitFixture ==
  /\ part \in SlabPartitions
  /\ fx = [r \in RanksOf(part) |-> GradientBoundaryFixture(part, r)]
  /\ owned_rhs = [r \in RanksOf(part) |-> putScalar(Len(fx[r].owned_map), 0)]
  /\ owned_and_shared_rhs =
       [r \in RanksOf(part) |-> putScalar(Len(fx[r].owned_and_shared_map), 0)]
  /\ maxval = [r \in RanksOf(part) |-> -1]
  /\ tpc = [r \in RanksOf(part) |-> "start"]
  /\ fxRef = SingleRankResidual
  /\ IdleGather
  /\ IdleAsm
  /\ IdleClosure
  /\ IdlePool
  /\ IdleMetric
  /\ IdleVolume
  /\ IdleActuator

NextFixture ==
  \/ \E r \in DOMAIN tpc : BoundaryClosure(r)
  \/ \E o \in DOMAIN tpc : Export(o)
  \/ \E o \in DOMAIN tpc : CheckMaxval(o)

SpecFixture == InitFixture /\ [][NextFixture]_vars

-----------------------------------------------------------------------------
(* MemoryPool and the assemblers that work in its allocation *)

Assemblers == {"matrix", "rhs"}

\* a pointer that points nowhere
Null == 0

\* the temporaries an assembler of each kind lays out in its workspace
Temporaries(kind) ==
  IF kind = "matrix" THEN <<"cols", "data", "workspace">>
  ELSE <<"data", "workspace">>

\* units of workspace an assembler of a kind needs for size entries
Request(kind, size) == Len(Temporaries(kind)) * size

\* variant: each temporary starts one unit before the end of the one before
CarveOverlapping(kind, size) ==
  [i \in 1 .. Len(Temporaries(kind)) |->
    [name |-> Temporaries(kind)[i],
     first |-> IF i = 1 THEN 0 ELSE (i - 1) * size - 1,
     size |-> size]]

\* setTemporaryDataArrayPtrs: the temporaries laid out one after the other
\* from the start of the workspace
Carve(kind, size) ==
  [i \in 1 .. Len(Temporaries(kind)) |->
    [name |-> Temporaries(kind)[i], first |-> (i - 1) * size, size |-> size]]

\* variant: the pointer handed out lies behind the allocation
get_d_workspace_moved == IF pPtr = Null THEN Null ELSE pPtr + 1

\* MemoryPool::get_d_workspace
get_d_workspace == pPtr

\* an assembler is handed the pool's workspace pointer
SetTemporaryDataArrayPtrs(a) ==
  /\ pAlive
  /\ pUser = "none"
  /\ pWs[a] = Null
  /\ pWs' = [pWs EXCEPT ![a] = get_d_workspace]
  /\ pRegions' = [pRegions EXCEPT ![a] = Carve(a, pReq[a])]
  /\ UNCHANGED <<pN, pPtr, pAlive, pReq, pUser, pCalls>>
  /\ UNCHANGED notPool

\* the host calls assemble() of an assembler that has its workspace; the
\* call runs to completion before the host calls anything else
PoolAssembleBegin(a) ==
  /\ pAlive
  /\ pUser = "none"
  /\ pWs[a] # Null
  /\ pCalls < MaxPoolCalls
  /\ pUser' = a
  /\ pCalls' = pCalls + 1
  /\ UNCHANGED <<pN, pPtr, pAlive, pReq, pWs, pRegions>>
  /\ UNCHANGED notPool

PoolAssembleEnd(a) ==
  /\ pUser = a
  /\ pUser' = "none"
  /\ UNCHANGED <<pN, pPtr, pAlive, pReq, pWs, pRegions, pCalls>>
  /\ UNCHANGED notPool

\* the solver context is destroyed: ~MemoryPool frees the allocation and the
\* assemblers go with it
PoolDestroy ==
  /\ pAlive
  /\ pUser = "none"
  /\ pAlive' = FALSE
  /\ pPtr' = Null
  /\ pWs' = [a \in Assemblers |-> Null]
  /\ pRegions' = [a \in Assemblers |-> << >>]
  /\ UNCHANGED <<pN, pReq, pUser, pCalls>>
  /\ UNCHANGED notPool

\* MemoryPool(name, N, rank) with N the largest request, and two assemblers
\* that have not been given a workspace yet
InitPool ==
  /\ pReq \in [Assemblers -> 1 .. MaxEntries]
  /\ pN = Max(Request("matrix", pReq["matrix"]), Request("rhs", pReq["rhs"]))
  /\ pPtr = PoolAllocation
  /\ pAlive = TRUE
  /\ pWs = [a \in Assemblers |-> Null]
  /\ pRegions = [a \in Assemblers |-> << >>]
  /\ pUser = "none"
  /\ pCalls = 0
  /\ IdleGather
  /\ IdleAsm
  /\ IdleClosure
  /\ IdleFixture
  /\ IdleMetric
  /\ IdleVolume
  /\ IdleActuator

NextPool ==
  \/ \E a \in Assemblers : SetTemporaryDataArrayPtrs(a)
  \/ \E a \in Assemblers : PoolAssembleBegin(a)
  \/ \E a \in Assemblers : PoolAssembleEnd(a)
  \/ PoolDestroy

SpecPool == InitPool /\ [][NextPool]_vars

-----------------------------------------------------------------------------
(* volume_metric *)

\* Coeffs<p> for the orders whose tables are rational.  Nlin[s + 1][j + 1] is
\* four times the linear shape function of side s (LN, RN) at evaluation
\* point j, and W[j + 1] is three times the weight of point j.  Order 1 is taken
\* with the points at the nodes and with the points at the centres of the
\* subcontrol volumes; order 2 with the points at the nodes
CoeffTables(p) ==
  CASE p = 1 -> {[p |-> 1, Nlin |-> <<<<4, 0>>, <<0, 4>>>>, W |-> <<3, 3>>],
                 [p |-> 1, Nlin |-> <<<<3, 1>>, <<1, 3>>>>, W |-> <<3, 3>>]}
    [] p = 2 -> {[p |-> 2, Nlin |-> <<<<4, 2, 0>>, <<0, 2, 4>>>>, W |-> <<1, 4, 1>>]}
    [] OTHER -> {}

LN == 0

RN == 1

XH == 0

YH == 1

ZH == 2

\* sides <<k, j, i>> of the eight vertices, in the order box(d, 0 .. 7) has
Corners ==
  <<<<0, 0, 0>>, <<0, 0, 1>>, <<0, 1, 1>>, <<0, 1, 0>>,
    <<1, 0, 0>>, <<1, 0, 1>>, <<1, 1, 1>>, <<1, 1, 0>>>>

\* the stencil node that holds vertex c of an element of order p
CornerNode(c, p) == <<p * Corners[c][1], p * Corners[c][2], p * Corners[c][3]>>

\* hex_vertex_coordinates<p>(index, coordinates) of lane n: box[d + 1][c + 1]
\* is box(d, c)
hex_vertex_coordinates(p, index, coordinates, n) ==
  LET V(d, c) == coordinates[index][CornerNode(c, p)][d][n]
      Row(d) == <<V(d, 1), V(d, 2), V(d, 3), V(d, 4), V(d, 5), V(d, 6), V(d, 7), V(d, 8)>>
  IN <<Row(0), Row(1), Row(2)>>

\* variant: the Z row differentiates along the j direction
hex_jacobian_component_zy(dj, di, Nlin, box, k, j, i) ==
  LET b == box[di + 1]
      N(s, a) == Nlin[s + 1][a + 1]
  IN
  IF dj = XH
  THEN - N(LN, j) * N(LN, k) * b[1] + N(LN, j) * N(LN, k) * b[2]
       + N(RN, j) * N(LN, k) * b[3] - N(RN, j) * N(LN, k) * b[4]
       - N(LN, j) * N(RN, k) * b[5] + N(LN, j) * N(RN, k) * b[6]
       + N(RN, j) * N(RN, k) * b[7] - N(RN, j) * N(RN, k) * b[8]
  ELSE - N(LN, i) * N(LN, k) * b[1] - N(RN, i) * N(LN, k) * b[2]
       + N(RN, i) * N(LN, k) * b[3] + N(LN, i) * N(LN, k) * b[4]
       - N(LN, i) * N(RN, k) * b[5] - N(RN, i) * N(RN, k) * b[6]
       + N(RN, i) * N(RN, k) * b[7] + N(LN, i) * N(RN, k) * b[8]

\* variant: the X branch takes its weights at i and k
hex_jacobian_component_xi(dj, di, Nlin, box, k, j, i) ==
  LET b == box[di + 1]
      N(s, a) == Nlin[s + 1][a + 1]
  IN
  IF dj = XH
  THEN - N(LN, i) * N(LN, k) * b[1] + N(LN, i) * N(LN, k) * b[2]
       + N(RN, i) * N(LN, k) * b[3] - N(RN, i) * N(LN, k) * b[4]
       - N(LN, i) * N(RN, k) * b[5] + N(LN, i) * N(RN, k) * b[6]
       + N(RN, i) * N(RN, k) * b[7] - N(RN, i) * N(RN, k) * b[8]
  ELSE IF dj = YH
  THEN - N(LN, i) * N(LN, k) * b[1] - N(RN, i) * N(LN, k) * b[2]
       + N(RN, i) * N(LN, k) * b[3] + N(LN, i) * N(LN, k) * b[4]
       - N(LN, i) * N(RN, k) * b[5] - N(RN, i) * N(RN, k) * b[6]
       + N(RN, i) * N(RN, k) * b[7] + N(LN, i) * N(RN, k) * b[8]
  ELSE - N(LN, i) * N(LN, j) * b[1] - N(RN, i) * N(LN, j) * b[2]
       - N(RN, i) * N(RN, j) * b[3] - N(LN, i) * N(RN, j) * b[4]
       + N(LN, i) * N(LN, j) * b[5] + N(RN, i) * N(LN, j) * b[6]
       + N(RN, i) * N(RN, j) * b[7] + N(LN, i) * N(RN, j) * b[8]

\* hex_jacobian_component<p, dj, di>: Nlin carries a factor 4 and the 0.5 is
\* left out, so the value is 32 times the C++ one
hex_jacobian_component(dj, di, Nlin, box, k, j, i) ==
  LET b == box[di + 1]
      N(s, a) == Nlin[s + 1][a + 1]
  IN
  IF dj = XH
  THEN - N(LN, j) * N(LN, k) * b[1] + N(LN, j) * N(LN, k) * b[2]
       + N(RN, j) * N(LN, k) * b[3] - N(RN, j) * N(LN, k) * b[4]
       - N(LN, j) * N(RN, k) * b[5] + N(LN, j) * N(RN, k) * b[6]
       + N(RN, j) * N(RN, k) * b[7] - N(RN, j) * N(RN, k) * b[8]
  ELSE IF dj = YH
  THEN - N(LN, i) * N(LN, k) * b[1] - N(RN, i) * N(LN, k) * b[2]
       + N(RN, i) * N(LN, k) * b[3] + N(LN, i) * N(LN, k) * b[4]
       - N(LN, i) * N(RN, k) * b[5] - N(RN, i) * N(RN, k) * b[6]
       + N(RN, i) * N(RN, k) * b[7] + N(LN, i) * N(RN, k) * b[8]
  ELSE - N(LN, i) * N(LN, j) * b[1] - N(RN, i) * N(LN, j) * b[2]
       - N(RN, i) * N(RN, j) * b[3] - N(LN, i) * N(RN, j) * b[4]
       + N(LN, i) * N(LN, j) * b[5] + N(RN, i) * N(LN, j) * b[6]
       + N(RN, i) * N(RN, j) * b[7] + N(LN, i) * N(RN, j) * b[8]

\* variant: jac(0, 0) is measured from the origin instead of between vertices
linear_hex_jacobian_anchored(coeff, box, k, j, i) ==
  <<<<hex_jacobian_component(XH, XH, coeff, box, k, j, i) + 32 * box[XH + 1][1],
      hex_jacobian_component(XH, YH, coeff, box, k, j, i),
      hex_jacobian_component(XH, ZH, coeff, box, k, j, i)>>,
    <<hex_jacobian_component(YH, XH, coeff, box, k, j, i),
      hex_jacobian_component(YH, YH, coeff, box, k, j, i),
      hex_jacobian_component(YH, ZH, coeff, box, k, j, i)>>,
    <<hex_jacobian_component(ZH, XH, coeff, box, k, j, i),
      hex_jacobian_component(ZH, YH, coeff, box, k, j, i),
      hex_jacobian_component(ZH, ZH, coeff, box, k, j, i)>>>>

\* linear_hex_jacobian<p>: jac[dj + 1][di + 1] is jac(dj, di)
linear_hex_jacobian(coeff, box, k, j, i) ==
  <<<<hex_jacobian_component(XH, XH, coeff, box, k, j, i),
      hex_jacobian_component(XH, YH, coeff, box, k, j, i),
      hex_jacobian_component(XH, ZH, coeff, box, k, j, i)>>,
    <<hex_jacobian_component(YH, XH, coeff, box, k, j, i),
      hex_jacobian_component(YH, YH, coeff, box, k, j, i),
      hex_jacobian_component(YH, ZH, coeff, box, k, j, i)>>,
    <<hex_jacobian_component(ZH, XH, coeff, box, k, j, i),
      hex_jacobian_component(ZH, YH, coeff, box, k, j, i),
      hex_jacobian_component(ZH, ZH, coeff, box, k, j, i)>>>>

\* determinant<ftype> of a 3 x 3 array
determinant(jac) ==
  jac[1][1] * (jac[2][2] * jac[3][3] - jac[2][3] * jac[3][2])
  - jac[1][2] * (jac[2][1] * jac[3][3] - jac[2][3] * jac[3][1])
  + jac[1][3] * (jac[2][1] * jac[3][2] - jac[2][2] * jac[3][1])

\* a determinant of the model is DetScale times the determinant of the code
DetScale == 32 * 32 * 32

\* variant: a negative determinant is stored as zero
StoredVolumeClamped(jac) == Max(0, determinant(jac))

\* the value the unweighted overload assigns to volume(index, k, j, i)
StoredVolume(jac) == determinant(jac)

\* variant: alpha is left out
StoredVolumeUnweighted(a, jac) == determinant(jac)

\* the value the weighted overload assigns to volume(index, k, j, i)
StoredVolumeWeighted(a, jac) == a * determinant(jac)

\* what the iteration at index assigns to volume(index, k, j, i), lane by lane
VolumeOfBatch(cf, coordinates, index) ==
  [x \in DOMAIN coordinates[index] |->
    [n \in Lanes |->
      StoredVolume(linear_hex_jacobian(
        cf.Nlin, hex_vertex_coordinates(cf.p, index, coordinates, n),
        x[1], x[2], x[3]))]]

\* variant: the view has at least one batch
VolumeExtentAtLeastOne(coordinates) == Max(1, Cardinality(DOMAIN coordinates))

\* coordinates.extent_int(0), the extent the returned view is allocated with
VolumeExtent(coordinates) == Cardinality(DOMAIN coordinates)

\* a freshly allocated scalar_view<p>: Kokkos fills it with zeros
NewVolumeView(p, extent) ==
  [b \in 0 .. (extent - 1) |-> [x \in ElemStencil(p) |-> [n \in Lanes |-> 0]]]

\* scalar_view<p> volume("volumes", coordinates.extent_int(0))
VolumeInvoke ==
  /\ gpc = "done"
  /\ gkind = "elem_vector"
  /\ vpc = "idle"
  /\ vol' = NewVolumeView(coeffs.p, VolumeExtent(gout))
  /\ vwrites' = NewVolumeView(coeffs.p, VolumeExtent(gout))
  /\ vdone' = {}
  /\ vpc' = "run"
  /\ UNCHANGED <<coeffs, ePass, eFirst>>
  /\ UNCHANGED gatherVars
  /\ UNCHANGED notMetric

\* the batch of the volume view the iteration at index assigns
VolumeBatchOf(index) == index

\* one iteration of the "volume" parallel_for
VolumeBatch(index) ==
  /\ vpc = "run"
  /\ index \in DOMAIN gout \ vdone
  /\ vol' = [vol EXCEPT ![VolumeBatchOf(index)] = VolumeOfBatch(coeffs, gout, index)]
  /\ vwrites' = [vwrites EXCEPT ![VolumeBatchOf(index)] =
                   [x \in DOMAIN @ |-> [n \in DOMAIN @[x] |-> @[x][n] + 1]]]
  /\ vdone' = vdone \cup {index}
  /\ UNCHANGED <<coeffs, vpc, ePass, eFirst>>
  /\ UNCHANGED gatherVars
  /\ UNCHANGED notMetric

\* the parallel_for has run every index of [0, coordinates.extent_int(0))
VolumeReturn ==
  /\ vpc = "run"
  /\ vdone = DOMAIN gout
  /\ vpc' = "done"
  /\ UNCHANGED <<coeffs, vol, vdone, vwrites, ePass, eFirst>>
  /\ UNCHANGED gatherVars
  /\ UNCHANGED notMetric

\* the gather, and volume_metric where coordinates were gathered, have returned
EvalDone == gpc = "done" /\ (gkind = "elem_vector" => vpc = "done")

\* the caller evaluates again on the same table and field, handing the gather
\* the view it filled before or another view with contents of its own
Reevaluate ==
  /\ ePass = 1
  /\ EvalDone
  /\ eFirst' = [field |-> gout, volume |-> vol]
  /\ \E prior \in {gout} \cup {EmptyView(gkind, conn, v) : v \in Fill} : gout' = prior
  /\ gidx' = NoIndices(gkind, conn)
  /\ gdone' = {}
  /\ derefs' = {}
  /\ gwrites' = EmptyView(gkind, conn, 0)
  /\ gpc' = "run"
  /\ vol' = << >>
  /\ vdone' = {}
  /\ vwrites' = << >>
  /\ vpc' = "idle"
  /\ ePass' = 2
  /\ UNCHANGED <<gkind, conn, field, coeffs>>
  /\ UNCHANGED notMetric

-----------------------------------------------------------------------------
(* Hexahedra with straight edges and the mesh volume_metric is run on *)

Plus(a, b) == <<a[1] + b[1], a[2] + b[2], a[3] + b[3]>>

Minus(a, b) == <<a[1] - b[1], a[2] - b[2], a[3] - b[3]>>

\* a . (b x c)
TripleProduct(a, b, c) ==
  LET bc == Cross(b, c) IN a[1] * bc[1] + a[2] * bc[2] + a[3] * bc[3]

\* the eight vertices of the parallelepiped at o with edges u, v, w
Parallelepiped(o, u, v, w) ==
  <<o, Plus(o, u), Plus(Plus(o, u), v), Plus(o, v),
    Plus(o, w), Plus(Plus(o, u), w), Plus(Plus(Plus(o, u), v), w), Plus(Plus(o, v), w)>>

\* a cube, a box, an oblique parallelepiped, a frustum of a pyramid and a
\* cube with one vertex pulled out (its three faces there are not planar)
Shapes ==
  <<Parallelepiped(<<0, 0, 0>>, <<1, 0, 0>>, <<0, 1, 0>>, <<0, 0, 1>>),
    Parallelepiped(<<1, -1, 0>>, <<2, 0, 0>>, <<0, 1, 0>>, <<0, 0, 3>>),
    Parallelepiped(<<0, 0, 0>>, <<2, 0, 0>>, <<1, 2, 0>>, <<0, 1, 1>>),
    <<<<0, 0, 0>>, <<4, 0, 0>>, <<4, 4, 0>>, <<0, 4, 0>>,
      <<1, 1, 3>>, <<3, 1, 3>>, <<3, 3, 3>>, <<1, 3, 3>>>>,
    <<<<0, 0, 0>>, <<2, 0, 0>>, <<2, 2, 0>>, <<0, 2, 0>>,
      <<0, 0, 2>>, <<2, 0, 2>>, <<2, 2, 3>>, <<0, 2, 2>>>>>>

\* opposite edges are equal vectors
IsParallelepiped(s) ==
  /\ Minus(s[2], s[1]) = Minus(s[3], s[4])
  /\ Minus(s[2], s[1]) = Minus(s[6], s[5])
  /\ Minus(s[2], s[1]) = Minus(s[7], s[8])
  /\ Minus(s[4], s[1]) = Minus(s[3], s[2])
  /\ Minus(s[4], s[1]) = Minus(s[8], s[5])
  /\ Minus(s[4], s[1]) = Minus(s[7], s[6])
  /\ Minus(s[5], s[1]) = Minus(s[6], s[2])
  /\ Minus(s[5], s[1]) = Minus(s[7], s[3])
  /\ Minus(s[5], s[1]) = Minus(s[8], s[4])

\* the faces of the hexahedron, vertices in order, seen from outside
Faces ==
  <<<<1, 4, 3, 2>>, <<5, 6, 7, 8>>, <<1, 2, 6, 5>>,
    <<2, 3, 7, 6>>, <<3, 4, 8, 7>>, <<4, 1, 5, 8>>>>

\* twelve times the volume between the origin and the bilinear patch on the
\* vertices a, b, c, d: the mean of its two splits into triangles
PatchCone(a, b, c, d) ==
  TripleProduct(a, b, c) + TripleProduct(a, c, d)
    + TripleProduct(a, b, d) + TripleProduct(b, c, d)

\* twelve times the volume of the trilinear image of the reference cube
TwelveVolumes(s) ==
  LET F(f) == PatchCone(s[Faces[f][1]], s[Faces[f][2]], s[Faces[f][3]], s[Faces[f][4]])
  IN F(1) + F(2) + F(3) + F(4) + F(5) + F(6)

\* the shape of element e when the mesh starts with shape number start
ShapeOf(start, e) == Shapes[((start + e) % Len(Shapes)) + 1]

\* position of stencil node x of a hexahedron of order p: the trilinear image
\* of the node, rounded down to the lattice
NodePosition(s, x, p) ==
  LET N(side, a) == IF side = 0 THEN (4 * (p - a)) \div p ELSE (4 * a) \div p
      Wt(c) == N(Corners[c][1], x[1]) * N(Corners[c][2], x[2]) * N(Corners[c][3], x[3])
      At(d) == (Wt(1) * s[1][d] + Wt(2) * s[2][d] + Wt(3) * s[3][d] + Wt(4) * s[4][d]
                + Wt(5) * s[5][d] + Wt(6) * s[6][d] + Wt(7) * s[7][d] + Wt(8) * s[8][d])
               \div 64
  IN <<At(1), At(2), At(3)>>

NodesPerHex(p) == (p + 1) * (p + 1) * (p + 1)

\* every element has nodes of its own: node x of element e is mesh index
HexNode(e, x, p) == e * NodesPerHex(p) + Flat(x, p) + 1

HexTable(p, count) ==
  BuildTable(count,
             [e \in 0 .. (count - 1) |-> [x \in ElemStencil(p) |-> HexNode(e, x, p)]],
             ElemStencil(p), InvalidHandle)

\* the coordinate field of the mesh
HexCoordinates(p, count, start) ==
  [h \in 1 .. (count * NodesPerHex(p)) |->
    LET e == (h - 1) \div NodesPerHex(p)
        x == CHOOSE y \in ElemStencil(p) : HexNode(e, y, p) = h
    IN NodePosition(ShapeOf(start, e), x, p)]

\* the vertices volume_metric reads for lane n of batch index
VerticesOf(p, index, coordinates, n) ==
  LET box == hex_vertex_coordinates(p, index, coordinates, n)
  IN [c \in 1 .. 8 |-> <<box[1][c], box[2][c], box[3][c]>>]

RECURSIVE SumNodes(_, _)
SumNodes(nodes, f) ==
  IF nodes = {} THEN 0
  ELSE LET x == CHOOSE y \in nodes : TRUE IN f[x] + SumNodes(nodes \ {x}, f)

\* a sum of the model's weighted determinants is VolumeScale times the volume
VolumeScale == 27 * DetScale

\* the volume of the element in lane n of batch index: the determinants at
\* the evaluation points, each times the weights of its point
ElementVolume(cf, volume, index, n) ==
  SumNodes(DOMAIN volume[index],
           [x \in DOMAIN volume[index] |->
             cf.W[x[1] + 1] * cf.W[x[2] + 1] * cf.W[x[3] + 1] * volume[index][x][n]])

InitMetric ==
  /\ \E kind \in GatherKinds, p \in 1 .. P, count \in 0 .. MaxEntities :
       IF kind = "elem_vector"
       THEN \E cf \in CoeffTables(p), start \in 0 .. (Len(Shapes) - 1) :
              /\ InitGatherOn(kind, HexTable(p, count),
                              {HexCoordinates(p, count, start)}, Fill)
              /\ coeffs = cf
       ELSE /\ \E stride \in Strides :
                 InitGatherWith(kind, BuildConn(kind, p, count, stride), Fill)
            /\ coeffs = NoCoeffs
  /\ vol = << >>
  /\ vdone = {}
  /\ vwrites = << >>
  /\ vpc = "idle"
  /\ ePass = 1
  /\ eFirst = << >>
  /\ IdleAsm
  /\ IdleClosure
  /\ IdleFixture
  /\ IdlePool
  /\ IdleVolume
  /\ IdleActuator

NextMetric ==
  \/ \E index \in Batches : GatherBatch(index)
  \/ GatherReturn
  \/ VolumeInvoke
  \/ \E index \in DOMAIN gout : VolumeBatch(index)
  \/ VolumeReturn
  \/ Reevaluate

SpecMetric == InitMetric /\ [][NextMetric]_vars

-----------------------------------------------------------------------------
(* The two overloads of volume_metric on a coordinates view *)

\* what the iteration at index of the weighted overload assigns to
\* volume(index, k, j, i), lane by lane
VolumeOfBatchWeighted(cf, alphaView, coordinates, index) ==
  [x \in DOMAIN coordinates[index] |->
    [n \in Lanes |->
      StoredVolumeWeighted(
        alphaView[index][x][n],
        linear_hex_jacobian(
          cf.Nlin, hex_vertex_coordinates(cf.p, index, coordinates, n),
          x[1], x[2], x[3]))]]

\* volume_metric_t<p>::invoke(alpha, coordinates): the view it returns
volume_metric_weighted(cf, alphaView, coordinates) ==
  [b \in 0 .. (VolumeExtent(coordinates) - 1) |->
    VolumeOfBatchWeighted(cf, alphaView, coordinates, b)]

\* variant: the box is read from the nodes next to vertex 0
JacobiansOfFirstCell(cf, coordinates) ==
  [b \in 0 .. (VolumeExtent(coordinates) - 1) |->
    [x \in DOMAIN coordinates[b] |->
      [n \in Lanes |->
        linear_hex_jacobian(cf.Nlin, hex_vertex_coordinates(1, b, coordinates, n),
                            x[1], x[2], x[3])]]]

\* the Jacobians a call forms, node by node and lane by lane
JacobiansOf(cf, coordinates) ==
  [b \in 0 .. (VolumeExtent(coordinates) - 1) |->
    [x \in DOMAIN coordinates[b] |->
      [n \in Lanes |->
        linear_hex_jacobian(cf.Nlin, hex_vertex_coordinates(cf.p, b, coordinates, n),
                            x[1], x[2], x[3])]]]

\* volume_metric_t<p>::invoke(coordinates): the view it returns, each value
\* taken from the Jacobian formed at its node
volume_metric(jacs) ==
  [b \in DOMAIN jacs |->
    [x \in DOMAIN jacs[b] |-> [n \in Lanes |-> StoredVolume(jacs[b][x][n])]]]

\* hexahedra volume_metric is not refused on: a mirrored cube, a cube
\* collapsed into a square, a cube with one vertex pushed through the
\* opposite one, and a cube collapsed into a point
Degenerate ==
  <<Parallelepiped(<<0, 0, 0>>, <<0, 1, 0>>, <<1, 0, 0>>, <<0, 0, 1>>),
    Parallelepiped(<<0, 0, 0>>, <<1, 0, 0>>, <<0, 1, 0>>, <<0, 0, 0>>),
    <<<<3, 3, 3>>, <<2, 0, 0>>, <<2, 2, 0>>, <<0, 2, 0>>,
      <<0, 0, 2>>, <<2, 0, 2>>, <<2, 2, 2>>, <<0, 2, 2>>>>,
    Parallelepiped(<<2, 2, 2>>, <<0, 0, 0>>, <<0, 0, 0>>, <<0, 0, 0>>)>>

Boxes == Shapes \o Degenerate

\* the meshes start with a well-shaped, a skewed and a degenerate hexahedron
Starts == {0, 3, Len(Shapes)}

\* the meshes are empty, hold one element, or fill more than one batch
MeshSizes == {0, 1, MaxEntities}

BoxOf(start, e) == Boxes[((start + e) % Len(Boxes)) + 1]

\* the coordinates view a gather leaves for count elements: a padded lane
\* holds what lane 0 of its batch holds
CoordinatesOf(p, count, start) ==
  [b \in 0 .. (NumBatches(count) - 1) |->
    [x \in ElemStencil(p) |->
      [c \in Comps |->
        [n \in Lanes |->
          LET e == IF b * SimdLen + n < count THEN b * SimdLen + n ELSE b * SimdLen
          IN NodePosition(BoxOf(start, e), x, p)[c + 1]]]]]

\* alpha views: identically one, and one that varies from node to node and
\* lane to lane and takes negative values and zero
AlphaViews(coordinates) ==
  {[b \in DOMAIN coordinates |->
     [x \in DOMAIN coordinates[b] |-> [n \in Lanes |-> 1]]],
   [b \in DOMAIN coordinates |->
     [x \in DOMAIN coordinates[b] |-> [n \in Lanes |-> b + x[1] + 2 * x[2] + 3 * x[3] + n - 1]]]}

\* the stencil nodes of an element of order p that hold no vertex
InteriorNodes(p) == {x \in ElemStencil(p) : \E a \in 1 .. 3 : x[a] \notin {0, p}}

\* displacements of a translation
Shifts == {-3, 5}

\* the last batch of a view
LastBatch(coordinates) == VolumeExtent(coordinates) - 1

\* volume_metric(coordinates)
VolumeMetric ==
  /\ "plain" \notin kRan
  /\ kRan' = kRan \cup {"plain"}
  /\ kJac' = JacobiansOf(kNlin, kCoords)
  /\ kVol' = volume_metric(kJac')
  /\ UNCHANGED <<kNlin, kCoords, kAlpha, kVolW, kPrev, kEdit>>
  /\ UNCHANGED notVolume

\* volume_metric(alpha, coordinates), called after the unweighted overload
VolumeMetricWeighted ==
  /\ kRan = {"plain"}
  /\ kRan' = kRan \cup {"weighted"}
  /\ kVolW' = volume_metric_weighted(kNlin, kAlpha, kCoords)
  /\ UNCHANGED <<kNlin, kCoords, kAlpha, kVol, kJac, kPrev, kEdit>>
  /\ UNCHANGED notVolume

\* both overloads have returned on the coordinates of the state
Evaluated == kRan = {"plain", "weighted"}

\* what the edits keep of the calls made before them
Results == [vol |-> kVol, volW |-> kVolW, jac |-> kJac]

\* a node of the first element of the last batch that holds no vertex is
\* moved along component c, and volume_metric is called again
MoveInteriorNode(x, c) ==
  /\ kEdit = "none"
  /\ Evaluated
  /\ LastBatch(kCoords) >= 0
  /\ x \in InteriorNodes(kNlin.p)
  /\ kPrev' = Results
  /\ kCoords' = [kCoords EXCEPT ![LastBatch(kCoords)][x][c][0] = @ + 5]
  /\ kRan' = {}
  /\ kVol' = << >>
  /\ kVolW' = << >>
  /\ kEdit' = "interior"
  /\ UNCHANGED <<kNlin, kAlpha, kJac>>
  /\ UNCHANGED notVolume

\* the element in lane n of the last batch is translated by d along
\* component c, and volume_metric is called again
TranslateElement(c, n, d) ==
  /\ kEdit = "none"
  /\ Evaluated
  /\ LastBatch(kCoords) >= 0
  /\ kPrev' = Results
  /\ kCoords' = [kCoords EXCEPT ![LastBatch(kCoords)] =
                   [x \in DOMAIN @ |-> [@[x] EXCEPT ![c][n] = @ + d]]]
  /\ kRan' = {}
  /\ kVol' = << >>
  /\ kVolW' = << >>
  /\ kEdit' = "translate"
  /\ UNCHANGED <<kNlin, kAlpha, kJac>>
  /\ UNCHANGED notVolume

InitVolume ==
  /\ \E p \in {1, 2}, count \in MeshSizes, start \in Starts :
       /\ kNlin \in CoeffTables(p)
       /\ kCoords = CoordinatesOf(p, count, start)
  /\ kAlpha \in AlphaViews(kCoords)
  /\ kRan = {}
  /\ kVol = << >>
  /\ kVolW = << >>
  /\ kJac = << >>
  /\ kPrev = << >>
  /\ kEdit = "none"
  /\ IdleGather
  /\ IdleAsm
  /\ IdleClosure
  /\ IdleFixture
  /\ IdlePool
  /\ IdleMetric
  /\ IdleActuator

NextVolume ==
  \/ VolumeMetric
  \/ VolumeMetricWeighted
  \/ \E x \in InteriorNodes(kNlin.p), c \in Comps : MoveInteriorNode(x, c)
  \/ \E c \in Comps, n \in Lanes, d \in Shifts : TranslateElement(c, n, d)

SpecVolume == InitVolume /\ [][NextVolume]_vars

-----------------------------------------------------------------------------
(* actuator_FAST_parse and readTurbineData *)

\* a double that is not a number
NaN == 1000000

\* x <= 0.0 on doubles
LessEqualZero(x) == x # NaN /\ x <= 0

\* x == y on doubles
EqualDoubles(x, y) == x # NaN /\ y # NaN /\ x = y

\* the actuator types: three NGP FAST models and one that is none of them
ActuatorTypes == {"ActLineFASTNGP", "ActDiskFASTNGP", "AdvActLineFASTNGP", "ActLineSimpleNGP"}

\* ActuatorMetaFAST::is_disk
is_disk(meta) == meta.actuatorType = "ActDiskFASTNGP"

\* fast::simStartType
SimStartTypes == {"init", "trueRestart", "restartDriverInitFAST"}

TurbineIds(n) == 0 .. (n - 1)

\* ActuatorMetaFAST(actMeta): the per-turbine views hold zeros
ActuatorMetaFAST(type, n, total, start) ==
  [actuatorType |-> type,
   numberOfActuators |-> n,
   numPointsTotal |-> total,
   filterLiftLineCorrection |-> FALSE,
   isotropicGaussian |-> FALSE,
   epsilon |-> [i \in TurbineIds(n) |-> <<0, 0, 0>>],
   epsilonChord |-> [i \in TurbineIds(n) |-> <<0, 0, 0>>],
   epsilonTower |-> [i \in TurbineIds(n) |-> <<0, 0, 0>>],
   epsilonHub |-> [i \in TurbineIds(n) |-> <<0, 0, 0>>],
   maxNumPntsPerBlade |-> 0,
   nBlades |-> [i \in TurbineIds(n) |-> 0],
   nPointsSwept |-> [i \in TurbineIds(n) |-> 0],
   useUniformAziSampling |-> [i \in TurbineIds(n) |-> FALSE],
   numPointsTurbine |-> [i \in TurbineIds(n) |-> 0],
   fi |-> [nTurbinesGlob |-> 0, dryRun |-> TRUE, tStart |-> 0, simStart |-> start,
           globTurbineData |-> << >>]]

\* a value of a YAML key: << >> when the key is absent, <<v>> for a scalar,
\* <<a, b, c>> for a sequence of three
IsScalar(v) == Len(v) = 1

\* a scalar repeated three times, or the sequence itself
Triple(v) == IF IsScalar(v) THEN <<v[1], v[1], v[1]>> ELSE v

\* a Turbine<i> node with every required key and an isotropic epsilon
PlainTurbine ==
  [present |-> TRUE, turbine_name |-> TRUE, fllt_correction |-> << >>,
   epsilon |-> <<2>>, epsilon_chord |-> << >>, epsilon_min |-> << >>,
   epsilon_tower |-> << >>, epsilon_hub |-> << >>, fast_keys |-> TRUE,
   num_force_pts_blade |-> <<4>>, num_force_pts_tower |-> <<2>>,
   num_blades |-> << >>, num_swept_pts |-> << >>]

\* a Turbine<i> node of the advanced actuator line
ChordTurbine ==
  [PlainTurbine EXCEPT !.epsilon = << >>, !.epsilon_chord = <<1, 1, 1>>,
                       !.epsilon_min = <<2, 3, 2>>]

\* the node y_actuator["Turbine<i>"] when the key is absent
MissingTurbine == [PlainTurbine EXCEPT !.present = FALSE]

\* the Turbine<i> nodes of the input files
TurbineNodes ==
  {MissingTurbine, PlainTurbine, ChordTurbine}
  \cup {[PlainTurbine EXCEPT !.epsilon = e] :
          e \in {<< >>, <<0>>, <<2, 2, 2>>, <<2, 3, 2>>, <<2, 2, -1>>, <<2, NaN, 2>>}}
  \cup {[PlainTurbine EXCEPT !.epsilon_chord = <<1, 1, 1>>],
        [PlainTurbine EXCEPT !.fllt_correction = <<TRUE>>],
        [PlainTurbine EXCEPT !.fllt_correction = <<FALSE>>],
        [PlainTurbine EXCEPT !.turbine_name = FALSE],
        [PlainTurbine EXCEPT !.fast_keys = FALSE],
        [PlainTurbine EXCEPT !.epsilon_tower = <<5>>],
        [PlainTurbine EXCEPT !.epsilon_tower = <<5, 6, 7>>, !.epsilon_hub = <<3>>],
        [PlainTurbine EXCEPT !.epsilon_hub = <<3, 4, 5>>]}
  \cup {[ChordTurbine EXCEPT !.epsilon_chord = e] : e \in {<<1, 0, 1>>, <<1, NaN, 1>>}}
  \cup {[ChordTurbine EXCEPT !.epsilon_min = e] : e \in {<< >>, <<0, 2, 2>>}}
  \cup {[ChordTurbine EXCEPT !.epsilon_tower = <<5>>]}
  \cup {[PlainTurbine EXCEPT !.num_force_pts_blade = b, !.num_force_pts_tower = t] :
          b \in {<< >>, <<6>>}, t \in {<< >>, <<0>>}}
  \cup {[PlainTurbine EXCEPT !.num_blades = nb] : nb \in {<<1>>, <<2>>, <<3>>, <<4>>}}
  \cup {[PlainTurbine EXCEPT !.num_swept_pts = s] : s \in {<<0>>, <<5>>}}
  \cup {[PlainTurbine EXCEPT !.num_blades = <<2>>, !.num_swept_pts = <<5>>]}

\* what a step of the parse leaves: an error message ("" when none was
\* raised) and the ActuatorMetaFAST
Raise(msg, meta) == [err |-> msg, meta |-> meta]

Proceed(meta) == [err |-> "", meta |-> meta]

\* variant: a component equal to zero is accepted
EpsilonRejectedNegative(eps) == \E j \in 1 .. 3 : eps[j] # NaN /\ eps[j] < 0

\* the loops "if (epsilonTemp[j] <= 0.0) throw" and
\* "if (epsilon_.h_view(iTurb, j) <= 0.0) throw"
EpsilonRejected(eps) == \E j \in 1 .. 3 : LessEqualZero(eps[j])

\* readTurbineData, the epsilon keys: epsilon_, epsilonChord_, epsilonTower_,
\* epsilonHub_ and isotropicGaussian_ of turbine iTurb = turb
ReadEpsilons(turb, meta, turbNode) ==
  LET epsilon == turbNode.epsilon
      epsilon_chord == turbNode.epsilon_chord
      WithTowerAndHub(m) ==
        [m EXCEPT
          !.epsilonTower[turb] =
             IF turbNode.epsilon_tower # << >> THEN Triple(turbNode.epsilon_tower)
             ELSE m.epsilon[turb],
          !.epsilonHub[turb] =
             IF turbNode.epsilon_hub # << >> THEN Triple(turbNode.epsilon_hub) ELSE @]
      Checked(m) ==
        IF EpsilonRejected(m.epsilon[turb])
        THEN Raise("ERROR:: zero value for epsilon detected", meta)
        ELSE Proceed(WithTowerAndHub(m))
  IN
  IF epsilon # << >> /\ epsilon_chord # << >>
  THEN Raise("epsilon and epsilon_chord have both been specified", meta)
  ELSE IF epsilon # << >> /\ meta.filterLiftLineCorrection
  THEN Raise("epsilon and fllt_correction have both been specified", meta)
  ELSE IF meta.actuatorType \in {"ActLineFASTNGP", "ActDiskFASTNGP"}
  THEN IF epsilon = << >>
       THEN Raise("required key epsilon is missing", meta)
       ELSE IF IsScalar(epsilon)
       THEN Checked([meta EXCEPT !.isotropicGaussian = TRUE,
                                 !.epsilon[turb] = Triple(epsilon)])
       ELSE IF EqualDoubles(epsilon[1], epsilon[2]) /\ EqualDoubles(epsilon[2], epsilon[3])
       THEN Checked([meta EXCEPT !.isotropicGaussian = TRUE, !.epsilon[turb] = epsilon])
       ELSE IF is_disk(meta)
       THEN Raise("ActDiskFASTNGP does not currently support anisotropic epsilons", meta)
       ELSE Checked([meta EXCEPT !.epsilon[turb] = epsilon])
  ELSE IF meta.actuatorType = "AdvActLineFASTNGP"
  THEN IF epsilon_chord = << >>
       THEN Raise("required key epsilon_chord is missing", meta)
       ELSE IF EpsilonRejected(epsilon_chord)
       THEN Raise("ERROR:: zero value for epsilon_chord detected", meta)
       ELSE IF turbNode.epsilon_min = << >>
       THEN Raise("required key epsilon_min is missing", meta)
       ELSE Checked([meta EXCEPT !.epsilonChord[turb] = epsilon_chord,
                                 !.epsilon[turb] = turbNode.epsilon_min])
  ELSE Checked(meta)

\* variant: a turbine without num_blades has two blades
NumBladesDefaultTwo(turbNode) ==
  IF turbNode.num_blades # << >> THEN turbNode.num_blades[1] ELSE 2

\* *numBlades = 3; get_if_present_no_default(turbNode, "num_blades", *numBlades)
NumBlades(turbNode) ==
  IF turbNode.num_blades # << >> THEN turbNode.num_blades[1] ELSE 3

\* variant: the hub point is not counted
NumPointsWithoutHub(numForcePtsTwr, numForcePtsBlade, numBlades) ==
  numForcePtsTwr + numForcePtsBlade * numBlades

\* 1 + numForcePtsTwr + numForcePtsBlade * (*numBlades)
NumPoints(numForcePtsTwr, numForcePtsBlade, numBlades) ==
  1 + numForcePtsTwr + numForcePtsBlade * numBlades

\* readTurbineData, from turb_id on: the points and blades of turbine iTurb = turb
ReadPoints(turb, meta, turbNode) ==
  LET numBlades == NumBlades(turbNode)
      blade == turbNode.num_force_pts_blade[1]
      twr == turbNode.num_force_pts_tower[1]
      swept == IF turbNode.num_swept_pts # << >> THEN turbNode.num_swept_pts[1]
               ELSE meta.nPointsSwept[turb]
      counted ==
        [meta EXCEPT
          !.fi.globTurbineData[turb + 1] =
             [numForcePtsBlade |-> blade, numForcePtsTwr |-> twr],
          !.maxNumPntsPerBlade = Max(@, blade),
          !.nBlades[turb] = numBlades,
          !.nPointsSwept[turb] = IF is_disk(meta) THEN swept ELSE @,
          !.useUniformAziSampling[turb] = IF is_disk(meta) THEN swept # 0 ELSE @,
          !.numPointsTurbine[turb] = NumPoints(twr, blade, numBlades),
          !.numPointsTotal = @ + NumPoints(twr, blade, numBlades)]
  IN
  IF ~turbNode.fast_keys
  THEN Raise("required key of the turbine is missing", meta)
  ELSE IF turbNode.num_force_pts_blade = << >>
  THEN Raise("required key num_force_pts_blade is missing", meta)
  ELSE IF turbNode.num_force_pts_tower = << >>
  THEN Raise("required key num_force_pts_tower is missing", meta)
  ELSE IF numBlades # 3 /\ numBlades # 2
  THEN Raise("Currently only 2 and 3 bladed turbines are supported", meta)
  ELSE IF is_disk(meta) /\ numBlades # 3
  THEN Raise("The ActuatorDisk model requires a base 3 bladed turbine", meta)
  ELSE Proceed(counted)

\* readTurbineData(iTurb, actMetaFAST, turbNode), iTurb = turb: an exception leaves the
\* ActuatorMetaFAST as it was before the call
readTurbineData(turb, meta, turbNode) ==
  LET fllt == IF turbNode.fllt_correction # << >> THEN turbNode.fllt_correction[1]
              ELSE meta.filterLiftLineCorrection
      eps == ReadEpsilons(turb, [meta EXCEPT !.filterLiftLineCorrection = fllt], turbNode)
      pts == ReadPoints(turb, eps.meta, turbNode)
  IN
  IF ~turbNode.turbine_name
  THEN Raise("required key turbine_name is missing", meta)
  ELSE IF fllt
  THEN Raise("Filtered lifting line correction has not been implemented", meta)
  ELSE IF eps.err # ""
  THEN Raise(eps.err, meta)
  ELSE IF pts.err # ""
  THEN Raise(pts.err, meta)
  ELSE pts

\* variant: a turbine without a node is passed over
LookUpTurbineOrSkip(turb, meta, turbNode) ==
  IF turbNode.present THEN readTurbineData(turb, meta, turbNode) ELSE Proceed(meta)

\* the body of the loop over turb
LookUpTurbine(turb, meta, turbNode) ==
  IF turbNode.present
  THEN readTurbineData(turb, meta, turbNode)
  ELSE Raise("Node for Turbine not present in input file or I cannot read it", meta)

\* variant: an unknown simStart starts from init
SimStartDefaultInit(simStartType, tStart, simStart) ==
  IF simStartType = "init"
  THEN IF tStart = 0 THEN [err |-> "", simStart |-> "init"]
       ELSE [err |-> "actuators: simStart type not consistent with start time for FAST",
             simStart |-> simStart]
  ELSE IF simStartType = "trueRestart" THEN [err |-> "", simStart |-> "trueRestart"]
  ELSE IF simStartType = "restartDriverInitFAST"
  THEN [err |-> "", simStart |-> "restartDriverInitFAST"]
  ELSE [err |-> "", simStart |-> "init"]

\* the if / else if chain on simStartType: the error it raises and fi.simStart
SimStart(simStartType, tStart, simStart) ==
  IF simStartType = "init"
  THEN IF tStart = 0 THEN [err |-> "", simStart |-> "init"]
       ELSE [err |-> "actuators: simStart type not consistent with start time for FAST",
             simStart |-> simStart]
  ELSE IF simStartType = "trueRestart" THEN [err |-> "", simStart |-> "trueRestart"]
  ELSE IF simStartType = "restartDriverInitFAST"
  THEN [err |-> "", simStart |-> "restartDriverInitFAST"]
  ELSE [err |-> "", simStart |-> simStart]

\* the keys of the actuator node read before the turbines: t_start, simStart
\* and, as one, n_every_checkpoint, dt_fast, t_max and the super_controller keys
ActuatorKeys ==
  [t_start : {<< >>, <<0>>, <<5>>},
   simStart : {<< >>, <<"init">>, <<"trueRestart">>, <<"restartDriverInitFAST">>, <<"restart">>},
   fast_keys : BOOLEAN]

\* actuator_FAST_parse between the test of nTurbinesGlob and the loop
ReadActuatorKeys(meta, keys) ==
  LET start == SimStart(keys.simStart[1], keys.t_start[1], meta.fi.simStart)
  IN
  IF keys.t_start = << >>
  THEN Raise("required key t_start is missing", meta)
  ELSE IF keys.simStart = << >>
  THEN Raise("required key simStart is missing", meta)
  ELSE IF start.err # ""
  THEN Raise(start.err, meta)
  ELSE IF ~keys.fast_keys
  THEN Raise("required key of the actuator is missing", meta)
  ELSE Proceed([meta EXCEPT
                 !.fi.dryRun = FALSE,
                 !.fi.tStart = keys.t_start[1],
                 !.fi.simStart = start.simStart,
                 !.fi.globTurbineData =
                    [i \in 1 .. meta.fi.nTurbinesGlob |->
                      [numForcePtsBlade |-> 0, numForcePtsTwr |-> 0]]])

\* the step that raised leaves the parse in "error" with its message
Finish(step, pc) ==
  /\ parseErr' = step.err
  /\ parsePc' = IF step.err # "" THEN "error" ELSE pc
  /\ actMetaFAST' = step.meta

\* actuator_FAST_parse up to the test of y_actuator
ParseStart(present) ==
  /\ parsePc = "start"
  /\ y_node' = [y_node EXCEPT !.actuator = <<present>>]
  /\ Finish(IF present
            THEN Proceed([actMetaFAST EXCEPT !.fi.nTurbinesGlob = actMetaFAST.numberOfActuators])
            ELSE Raise("actuator argument is missing from yaml node passed to actuator_FAST_parse",
                       actMetaFAST),
            "keys")
  /\ UNCHANGED <<actMeta, iTurb, turbinesRead>>
  /\ UNCHANGED notActuator

\* the test of nTurbinesGlob and the keys read before the loop
ParseKeys(keys) ==
  /\ parsePc = "keys"
  /\ IF actMetaFAST.fi.nTurbinesGlob > 0
     THEN /\ y_node' = [y_node EXCEPT !.keys = <<keys>>]
          /\ Finish(ReadActuatorKeys(actMetaFAST, keys), "turbines")
     ELSE /\ y_node' = y_node
          /\ Finish(Raise("Number of turbines <= 0 ", actMetaFAST), "turbines")
  /\ UNCHANGED <<actMeta, iTurb, turbinesRead>>
  /\ UNCHANGED notActuator

\* one pass of the loop over iTurb
ParseTurbine(turbNode) ==
  /\ parsePc = "turbines"
  /\ iTurb < actMetaFAST.fi.nTurbinesGlob
  /\ y_node' = [y_node EXCEPT !.turbine = <<turbNode>>]
  /\ turbinesRead' = Append(turbinesRead, <<iTurb, turbNode.present>>)
  /\ LET step == LookUpTurbine(iTurb, actMetaFAST, turbNode)
     IN /\ Finish(step, "turbines")
        /\ iTurb' = IF step.err = "" THEN iTurb + 1 ELSE iTurb
  /\ UNCHANGED actMeta
  /\ UNCHANGED notActuator

\* return actMetaFAST
ParseReturn ==
  /\ parsePc = "turbines"
  /\ iTurb >= actMetaFAST.fi.nTurbinesGlob
  /\ parsePc' = "returned"
  /\ UNCHANGED <<actMeta, actMetaFAST, y_node, iTurb, turbinesRead, parseErr>>
  /\ UNCHANGED notActuator

\* actuator_FAST_parse is called with an ActuatorMeta of any actuator type,
\* turbine count and point total
InitActuator ==
  /\ \E type \in ActuatorTypes, n \in (-1) .. MaxTurbines, total \in {0, 7},
        start \in {"init", "trueRestart"} :
       actMeta = ActuatorMetaFAST(type, n, total, start)
  /\ actMetaFAST = actMeta
  /\ y_node = UnreadNode
  /\ iTurb = 0
  /\ turbinesRead = << >>
  /\ parsePc = "start"
  /\ parseErr = ""
  /\ IdleGather
  /\ IdleAsm
  /\ IdleClosure
  /\ IdleFixture
  /\ IdlePool
  /\ IdleMetric
  /\ IdleVolume

NextActuator ==
  \/ \E present \in BOOLEAN : ParseStart(present)
  \/ \E keys \in ActuatorKeys : ParseKeys(keys)
  \/ \E turbNode \in TurbineNodes : ParseTurbine(turbNode)
  \/ ParseReturn

SpecActuator == InitActuator /\ [][NextActuator]_vars

-----------------------------------------------------------------------------
(* Properties of the gathers *)

\* lane n of batch b holds an entity
LaneValid(b, n) == valid_mesh_index(conn[b][Origin(gkind)][n])

\* the mesh index the padding rule names for lane n, stencil node x of batch b
PaddingRule(b, x, n) == IF LaneValid(b, n) THEN conn[b][x][n] ELSE conn[b][x][0]

\* C3: in every gather, for every batch b the gather has run, every lane n,
\* stencil node x and component c, lane n of output slot (b, x, c) holds
\* field.get(h, c) with h = conn(b, x, n) when lane n is valid and
\* h = conn(b, x, 0) when it is not; so a padded lane is a copy of lane 0.
C3_GatherPaddingRule ==
  \A b \in gdone : \A x \in StencilIn(conn, b) : \A c \in CompsOf(gkind) : \A n \in Lanes :
    /\ gout[b][x][c][n] = FieldGet(field, PaddingRule(b, x, n), c)
    /\ ~LaneValid(b, n) => gout[b][x][c][n] = gout[b][x][c][0]

\* a finished element gather with a padded lane whose lane-0 copy differs
\* from the prior contents, and a valid lane that read its own entity
C3_Witness ==
  /\ gpc = "done"
  /\ gkind = "elem_vector"
  /\ \E b \in gdone : \E n \in Lanes :
       /\ ~LaneValid(b, n)
       /\ \E x \in StencilIn(conn, b) :
            gout[b][x][1][n] = FieldGet(field, conn[b][x][0], 1)
  /\ \E b \in gdone : \E n \in Lanes \ {0} : \E x \in StencilIn(conn, b) :
       /\ LaneValid(b, n)
       /\ gout[b][x][0][n] # gout[b][x][0][0]

\* every lane 0 is valid at every stencil node, and a lane whose first stencil
\* node is valid is valid at all of them
WellFormedConn ==
  \A b \in Batches : \A x \in StencilIn(conn, b) :
    /\ InRange(field, conn[b][x][0])
    /\ \A n \in Lanes : LaneValid(b, n) => InRange(field, conn[b][x][n])

\* C4 as stated: whatever the table, every mesh index handed to field.get
\* is valid.
C4_NoInvalidDeref == \A h \in derefs : InRange(field, h)

\* C4 amended: on a table whose lane 0 is valid in every batch and whose
\* lanes are valid at all stencil nodes or at none, every mesh index handed
\* to field.get is valid.
C4_WellFormedNoInvalidDeref ==
  WellFormedConn => \A h \in derefs : InRange(field, h)

\* a finished gather over a well-formed table with a padded lane
C4_Witness ==
  /\ gpc = "done"
  /\ WellFormedConn
  /\ derefs # {}
  /\ \E b \in gdone : \E n \in Lanes : ~LaneValid(b, n)

\* C5 as stated: the choice between a lane's own entity and lane 0's entity
\* is made once per batch, on the validity of lane 0's handle.
C5_LaneZeroDecides ==
  \A b \in gdone : \A x \in StencilIn(conn, b) : \A n \in Lanes :
    gidx[b][x][n] =
      IF valid_mesh_index(conn[b][Origin(gkind)][0]) THEN conn[b][x][n] ELSE conn[b][x][0]

\* C5 amended: the choice is made per lane, on the validity of that lane's
\* own first-stencil-node handle: a valid lane reads its own entity, an
\* invalid lane reads lane 0's, whatever the other lanes hold.
C5_OwnLaneDecides ==
  \A b \in gdone : \A x \in StencilIn(conn, b) : \A n \in Lanes :
    /\ LaneValid(b, n) => gidx[b][x][n] = conn[b][x][n]
    /\ ~LaneValid(b, n) => gidx[b][x][n] = conn[b][x][0]

\* a finished face gather in which lane 0 is valid and another lane is not
C5_Witness ==
  /\ gpc = "done"
  /\ gkind \in {"face_scalar", "face_vector"}
  /\ \E b \in gdone : \E n \in Lanes \ {0} :
       /\ LaneValid(b, 0)
       /\ ~LaneValid(b, n)
       /\ \A x \in StencilIn(conn, b) : gidx[b][x][n] = conn[b][x][0]

-----------------------------------------------------------------------------
(* Properties of the assemblers *)

RECURSIVE PrefixCount(_, _)
PrefixCount(counts, q) == IF q = 0 THEN 0 ELSE counts[q] + PrefixCount(counts, q - 1)

\* row_counts account for every stored column index and value
CsrConsistent(csr) ==
  /\ Len(csr.row_counts) = Len(csr.row_indices)
  /\ Len(csr.values) = Len(csr.col_indices)
  /\ PrefixCount(csr.row_counts, Len(csr.row_counts)) = Len(csr.col_indices)

\* the row block that position m of col_indices / values lies in
BlockOf(csr, m) ==
  CHOOSE q \in 1 .. Len(csr.row_indices) :
    PrefixCount(csr.row_counts, q - 1) < m /\ m <= PrefixCount(csr.row_counts, q)

\* the <<row, col, value>> entries a CSR structure stores, in storage order
Expand(csr) ==
  [m \in 1 .. Len(csr.col_indices) |->
    <<csr.row_indices[BlockOf(csr, m)], csr.col_indices[m], csr.values[m]>>]

RECURSIVE SumFor(_, _)
SumFor(s, k) ==
  IF s = << >> THEN 0
  ELSE (IF KeyOf(Head(s)) = k THEN Head(s)[3] ELSE 0) + SumFor(Tail(s), k)

KeysOf(s) == {KeyOf(s[m]) : m \in 1 .. Len(s)}

\* C1: after assemble, for every key the combined structure stores exactly
\* one entry with that key, its value is the sum of all contributed values
\* with that key, and it stores no key that was not contributed.
C1_AssemblySumExact ==
  apc = "assembled" =>
    /\ CsrConsistent(aDev.all)
    /\ LET ex == Expand(aDev.all)
       IN /\ \A k \in KeysOf(aIn) :
               /\ Cardinality({m \in 1 .. Len(ex) : KeyOf(ex[m]) = k}) = 1
               /\ \A m \in 1 .. Len(ex) : KeyOf(ex[m]) = k => ex[m][3] = SumFor(aIn, k)
          /\ KeysOf(ex) \subseteq KeysOf(aIn)

\* an assembled matrix in which one key was contributed twice and another once
C1_Witness ==
  /\ apc = "assembled"
  /\ akind = "matrix"
  /\ Len(aIn) = 3
  /\ Cardinality(KeysOf(aIn)) = 2
  /\ \E m \in 1 .. Len(aDev.all.values) : aDev.all.values[m] = 3

StrictlyIncreasing(s) == \A m \in 1 .. (Len(s) - 1) : s[m] < s[m + 1]

\* rows ascend and, inside every row, column indices strictly increase
CsrSorted(csr) ==
  /\ CsrConsistent(csr)
  /\ StrictlyIncreasing(csr.row_indices)
  /\ \A q \in 1 .. Len(csr.row_indices) :
       /\ csr.row_counts[q] >= 1
       /\ \A m \in (PrefixCount(csr.row_counts, q - 1) + 1) ..
                     (PrefixCount(csr.row_counts, q) - 1) :
            csr.col_indices[m] < csr.col_indices[m + 1]

\* C2: after assemble, in the combined, the owned and the shared structure
\* rows are ascending and the column indices of each row strictly increasing.
C2_CsrSortedUnique ==
  apc = "assembled" =>
    CsrSorted(aDev.all) /\ CsrSorted(aDev.owned) /\ CsrSorted(aDev.shared)

\* an assembled matrix whose entries were written in descending key order,
\* with a duplicate, and which has an owned and a shared row
C2_Witness ==
  /\ apc = "assembled"
  /\ akind = "matrix"
  /\ Len(aIn) = 3
  /\ KeyLess(KeyOf(aIn[3]), KeyOf(aIn[1]))
  /\ KeyOf(aIn[2]) = KeyOf(aIn[1])
  /\ Len(aDev.owned.row_indices) = 1
  /\ Len(aDev.shared.row_indices) = 1

-----------------------------------------------------------------------------
(* Properties of the closure *)

\* sum of component d of the contributions of the face nodes in S to row
RECURSIVE SumInto(_, _, _)
SumInto(S, row, d) ==
  IF S = {} THEN 0
  ELSE LET it == CHOOSE i \in S : TRUE
       IN (IF cOffsets[it[1]][it[2]][it[3]] = row
             THEN FaceFlux(cQ, cAreas, it)[d] ELSE 0)
          + SumInto(S \ {it}, row, d)

-----------------------------------------------------------------------------
(* Properties of the row maps, the export and the fixture's scenario *)

SeqRange(s) == {s[q] : q \in 1 .. Len(s)}

NoDuplicates(s) == \A q1 \in 1 .. Len(s), q2 \in 1 .. Len(s) : s[q1] = s[q2] => q1 = q2

\* C6: on every rank the rows of owned_and_shared_map are exactly the nodes
\* the rank touches, each once; the first getNodeNumElements(owned_map) of
\* them are the rank's owned rows (owned_map itself) and all the others are
\* rows another rank owns, so every row is in exactly one of the two ranges;
\* elid sends every local node to its row
C6_OwnedSharedPartition ==
  \A r \in DOMAIN fx :
    LET om == fx[r].owned_map
        osm == fx[r].owned_and_shared_map
    IN /\ NoDuplicates(osm)
       /\ SeqRange(osm) = {g \in 1 .. NumMeshNodes : Touches(part, r, g)}
       /\ Len(om) <= Len(osm)
       /\ SubSeq(osm, 1, Len(om)) = om
       /\ \A q \in 1 .. Len(osm) : (q <= Len(om)) <=> (Owner(part, osm[q]) = r)
       /\ \A g \in SeqRange(osm) : osm[fx[r].elid[g] + 1] = g

\* a rank whose map has owned rows and shared rows, a shared one with a
\* global id below an owned one
C6_Witness ==
  \E r \in DOMAIN fx :
    LET om == fx[r].owned_map
        osm == fx[r].owned_and_shared_map
    IN /\ Len(om) > 0
       /\ Len(osm) > Len(om)
       /\ osm[Len(osm)] < om[1]

Exported(o) == tpc[o] \in {"exported", "passed", "failed"}

\* sum of component d of the partial sums the ranks in R hold for node g
RECURSIVE SumOfPartials(_, _, _)
SumOfPartials(R, g, d) ==
  IF R = {} THEN 0
  ELSE LET r == CHOOSE q \in R : TRUE
       IN owned_and_shared_rhs[r][fx[r].elid[g]][d] + SumOfPartials(R \ {r}, g, d)

\* C8: after the export with ADD every owned row holds the sum of the local
\* partial sums of every rank that touches the row, each added once, and
\* that is the value the row has when the whole mesh is on a single rank
C8_ExportConservative ==
  \A o \in DOMAIN tpc :
    Exported(o) =>
      \A l \in DOMAIN owned_rhs[o] : \A d \in 1 .. 3 :
        LET g == fx[o].owned_map[l + 1]
        IN /\ owned_rhs[o][l][d] = SumOfPartials(RanksAt(part, g), g, d)
           /\ owned_rhs[o][l][d] = fxRef[g][d]

\* a rank has received the export, and one of its rows got a non-zero
\* partial sum from itself and a non-zero partial sum from another rank
C8_Witness ==
  \E o \in DOMAIN tpc :
    /\ Exported(o)
    /\ \E l \in DOMAIN owned_rhs[o], r \in DOMAIN tpc :
         LET g == fx[o].owned_map[l + 1]
         IN /\ r # o
            /\ g \in DOMAIN fx[r].elid
            /\ owned_and_shared_rhs[r][fx[r].elid[g]][1] # 0
            /\ owned_and_shared_rhs[o][fx[o].elid[g]][1] # 0
            /\ owned_rhs[o][l][1] # owned_and_shared_rhs[o][fx[o].elid[g]][1]

\* C10: on the 4x4x4 mesh with the boundary scalar -2.3, for any partition
\* of the mesh over ranks, the maximum over the owned rows of |component 0|
\* equals |-2.3| / (scale*nx)^2 = 0.14375 on every rank: the comparison of
\* the test never fails
C10_MaxvalOnEveryRank ==
  \A o \in DOMAIN tpc :
    tpc[o] \in {"passed", "failed"} => maxval[o] = ExpectedMaxval /\ tpc[o] = "passed"

-----------------------------------------------------------------------------
(* Properties of the assembler's buffer, its reuse and the host mirrors *)

\* the streams that hold the entries of s in another order
Reorderings(s) ==
  {[i \in 1 .. Len(s) |-> s[f[i]]] : f \in Permutations(1 .. Len(s))}

C13_BufferReuse ==
  /\ aBuf = PoolAllocation
  /\ \A i \in 1 .. Len(aWork) : i > Len(aIn) => aWork[i] = ZeroSlot
  /\ apc = "assembled" => aDev = DeviceOf(Reduced(aIn), owned_row_count)

\* a later call has completed on a stream shorter than the ones before it
C13_Witness ==
  /\ apc = "assembled"
  /\ aCalls >= 1
  /\ aIn # << >>
  /\ aTotal - Len(aIn) > Len(aIn)

-----------------------------------------------------------------------------
(* Properties of the memory pool *)

\* the assemblers that hold the pool's workspace pointer
Holders == {a \in Assemblers : pWs[a] # Null /\ pWs[a] = pPtr}

UnitsOf(t) == t.first .. (t.first + t.size - 1)

\* C15: the pool has one allocation, at least as large as the largest
\* request of any assembler, and the temporaries an assembler lays out in
\* it are pairwise disjoint and lie inside the allocation
C15_PoolLayout ==
  /\ pAlive => pPtr = PoolAllocation
  /\ \A a \in Assemblers : pN >= Request(a, pReq[a])
  /\ \A a \in Assemblers :
       \A i \in DOMAIN pRegions[a], j \in DOMAIN pRegions[a] :
         /\ UnitsOf(pRegions[a][i]) \subseteq 0 .. (pN - 1)
         /\ i # j => UnitsOf(pRegions[a][i]) \cap UnitsOf(pRegions[a][j]) = {}

\* both assemblers have laid out their temporaries and one of them fills
\* the whole allocation
C15_Witness ==
  /\ \A a \in Assemblers : pRegions[a] # << >>
  /\ \E a \in Assemblers : Request(a, pReq[a]) = pN
  /\ pReq["matrix"] # pReq["rhs"]

-----------------------------------------------------------------------------
(* Properties of the gather / volume_metric evaluation *)

\* C17: within one call every output slot of the gather (batch, stencil
\* node, component, lane) and of volume_metric (batch, stencil node, lane) is
\* written exactly once, by the iteration of its own batch and by no other,
\* so that whatever order the iterations ran in, the returned views are the
\* per-batch results of the table, the field and the gathered coordinates
C17_RaceFree ==
  /\ \A b \in DOMAIN gwrites : \A x \in DOMAIN gwrites[b] :
       \A c \in DOMAIN gwrites[b][x] : \A n \in Lanes :
         gwrites[b][x][c][n] = IF b \in gdone THEN 1 ELSE 0
  /\ \A b \in DOMAIN vwrites : \A x \in DOMAIN vwrites[b] : \A n \in Lanes :
       vwrites[b][x][n] = IF b \in vdone THEN 1 ELSE 0
  /\ gpc = "done" =>
       gout = [b \in DOMAIN conn |-> BatchValues(gkind, conn, field, b, NoGarbage)]
  /\ vpc = "done" =>
       vol = [b \in DOMAIN gout |-> VolumeOfBatch(coeffs, gout, b)]

\* a gather of coordinates and its volume_metric have both run two batches
C17_Witness ==
  /\ gkind = "elem_vector"
  /\ gpc = "done"
  /\ vpc = "done"
  /\ Cardinality(gdone) >= 2
  /\ Cardinality(vdone) >= 2
  /\ \A b \in DOMAIN gwrites : gwrites[b][<<0, 0, 0>>][0][0] = 1

\* C18: on a connectivity table of zero batch extent every gather and
\* volume_metric run no iteration, hand no mesh index to the field, leave
\* and return views of zero batch count and raise no error
C18_EmptyInput ==
  DOMAIN conn = {} =>
    /\ gdone = {}
    /\ derefs = {}
    /\ DOMAIN gout = {}
    /\ gpc \in {"run", "done"}
    /\ vdone = {}
    /\ DOMAIN vol = {}
    /\ vpc \in {"idle", "run", "done"}

\* the coordinate gather and volume_metric have returned on an empty table
C18_Witness ==
  /\ DOMAIN conn = {}
  /\ gkind = "elem_vector"
  /\ gpc = "done"
  /\ vpc = "done"
  /\ DOMAIN vol = {}

\* C19: the repeated evaluation of a gather, followed by volume_metric where
\* coordinates were gathered, on the same table and field returns what the
\* first evaluation returned, whatever the output view held when it began
C19_Idempotent ==
  (ePass = 2 /\ EvalDone) =>
    /\ gout = eFirst.field
    /\ vol = eFirst.volume

\* a repeated evaluation over at least one batch has returned volumes
C19_Witness ==
  /\ ePass = 2
  /\ EvalDone
  /\ gkind = "elem_vector"
  /\ DOMAIN vol # {}
  /\ \E b \in DOMAIN vol : vol[b][<<0, 0, 0>>][0] # 0
  /\ vol = eFirst.volume

\* the hexahedron read for lane n of batch b of the gathered coordinates
GatheredHex(b, n) == VerticesOf(coeffs.p, b, gout, n)

\* C20 as stated: for every hexahedron of positive volume the element volume
\* obtained from the determinants equals the volume of the trilinear box
C20_TrilinearVolume ==
  vpc = "done" =>
    \A b \in DOMAIN vol : \A n \in Lanes :
      TwelveVolumes(GatheredHex(b, n)) > 0 =>
        12 * ElementVolume(coeffs, vol, b, n)
          = VolumeScale * TwelveVolumes(GatheredHex(b, n))

\* C20: for every parallelepiped of positive volume (axis-aligned boxes
\* included) each determinant is one eighth of the volume, and the element
\* volume obtained from the determinants is the closed-form volume
C20_ParallelepipedVolume ==
  vpc = "done" =>
    \A b \in DOMAIN vol : \A n \in Lanes :
      LET s == GatheredHex(b, n)
          v == TripleProduct(Minus(s[2], s[1]), Minus(s[4], s[1]), Minus(s[5], s[1]))
      IN (IsParallelepiped(s) /\ v > 0) =>
           /\ \A x \in DOMAIN vol[b] : 8 * vol[b][x][n] = DetScale * v
           /\ ElementVolume(coeffs, vol, b, n) = VolumeScale * v
           /\ TwelveVolumes(s) = 12 * v

\* the volume of an oblique parallelepiped has been computed
C20_Witness ==
  /\ vpc = "done"
  /\ \E b \in DOMAIN vol : \E n \in Lanes :
       LET s == GatheredHex(b, n)
       IN /\ IsParallelepiped(s)
          /\ Minus(s[4], s[1])[1] # 0
          /\ ElementVolume(coeffs, vol, b, n) = VolumeScale * 4

-----------------------------------------------------------------------------
(* Properties of volume_metric on a coordinates view *)

\* the slots of a view returned for the coordinates of the state
VolumeSlots == {<<b, x, n>> : b \in DOMAIN kCoords, x \in ElemStencil(kNlin.p), n \in Lanes}

\* the determinant of the Jacobian formed for a slot, as the triple product
\* of its rows
SignedDeterminant(s) ==
  TripleProduct(kJac[s[1]][s[2]][s[3]][1], kJac[s[1]][s[2]][s[3]][2], kJac[s[1]][s[2]][s[3]][3])

\* C21: whatever the hexahedra are (mirrored, collapsed, folded), once an
\* overload has returned every node of every batch holds the signed
\* determinant of its Jacobian (times alpha in the weighted overload): no
\* node is left out and no value is clamped or made positive
C21_SignedDeterminant ==
  /\ "plain" \in kRan =>
       /\ DOMAIN kVol = DOMAIN kCoords
       /\ \A b \in DOMAIN kVol : DOMAIN kVol[b] = ElemStencil(kNlin.p)
       /\ \A s \in VolumeSlots : kVol[s[1]][s[2]][s[3]] = SignedDeterminant(s)
  /\ "weighted" \in kRan =>
       /\ DOMAIN kVolW = DOMAIN kCoords
       /\ \A b \in DOMAIN kVolW : DOMAIN kVolW[b] = ElemStencil(kNlin.p)
       /\ \A s \in VolumeSlots :
            kVolW[s[1]][s[2]][s[3]] = kAlpha[s[1]][s[2]][s[3]] * SignedDeterminant(s)

\* both overloads have returned on a view with a mirrored hexahedron, a
\* collapsed one and one whose determinant changes sign inside the element
C21_Witness ==
  /\ Evaluated
  /\ \E s \in VolumeSlots : kVol[s[1]][s[2]][s[3]] = 0
  /\ \E s \in VolumeSlots : kVolW[s[1]][s[2]][s[3]] < 0 /\ kAlpha[s[1]][s[2]][s[3]] > 0
  /\ \E s, t \in VolumeSlots :
       /\ s[1] = t[1]
       /\ s[3] = t[3]
       /\ kVol[s[1]][s[2]][s[3]] < 0
       /\ kVol[t[1]][t[2]][t[3]] > 0

\* C22: after a node that holds no vertex has been moved, the calls return
\* the Jacobians and the volumes they returned before the move
C22_TrilinearGeometry ==
  kEdit = "interior" =>
    /\ "plain" \in kRan => (kJac = kPrev.jac /\ kVol = kPrev.vol)
    /\ "weighted" \in kRan => kVolW = kPrev.volW

\* both overloads have returned again after an interior node of an element
\* of order 2 with non-zero volume was moved
C22_Witness ==
  /\ kEdit = "interior"
  /\ Evaluated
  /\ kNlin.p = 2
  /\ \E s \in VolumeSlots : kVol[s[1]][s[2]][s[3]] # 0
  /\ \E s \in VolumeSlots : kVolW[s[1]][s[2]][s[3]] # kVol[s[1]][s[2]][s[3]]

\* the position in <<k, j, i>> of the index held fixed along reference axis dj
HeldIndex(dj) == 3 - dj

\* the signed sum over the 8 vertices for reference axis dj: the sign is the
\* side of the vertex along dj, the weight the product of Nlin at the two
\* remaining indices of at = <<k, j, i>>
CornerSum(dj, di, Nlin, box, at) ==
  LET Term(c) ==
        LET side == Corners[c]
            sign == IF side[HeldIndex(dj)] = 1 THEN 1 ELSE -1
            a == CHOOSE q \in 1 .. 3 : q # HeldIndex(dj) /\ \A r \in 1 .. 3 : r # HeldIndex(dj) => q <= r
            z == CHOOSE q \in 1 .. 3 : q # HeldIndex(dj) /\ q # a
        IN sign * Nlin[side[a] + 1][at[a] + 1] * Nlin[side[z] + 1][at[z] + 1] * box[di + 1][c]
  IN Term(1) + Term(2) + Term(3) + Term(4) + Term(5) + Term(6) + Term(7) + Term(8)

\* C23: the Jacobian components of reference axis X are the same at nodes
\* that differ in i only, those of Y at nodes that differ in j only, those of
\* Z at nodes that differ in k only, and each component is the signed sum
\* over the 8 vertices weighted by Nlin at the two remaining indices
C23_HeldFixedAxis ==
  "plain" \in kRan =>
    /\ \A b \in DOMAIN kJac : \A n \in Lanes : \A dj \in Comps :
         \A x, y \in ElemStencil(kNlin.p) :
           (\A a \in 1 .. 3 : a # HeldIndex(dj) => x[a] = y[a]) =>
             kJac[b][x][n][dj + 1] = kJac[b][y][n][dj + 1]
    /\ kEdit = "none" =>
         \A s \in VolumeSlots : \A dj, di \in Comps :
           kJac[s[1]][s[2]][s[3]][dj + 1][di + 1] =
             CornerSum(dj, di, kNlin.Nlin,
                       hex_vertex_coordinates(kNlin.p, s[1], kCoords, s[3]), s[2])

\* the Jacobians of a skewed element of order 2 have been formed, and its
\* X components do vary with j
C23_Witness ==
  /\ "plain" \in kRan
  /\ kNlin.p = 2
  /\ \E b \in DOMAIN kJac : \E n \in Lanes :
       /\ kJac[b][<<0, 0, 0>>][n][XH + 1] # kJac[b][<<0, 2, 0>>][n][XH + 1]
       /\ kJac[b][<<0, 0, 0>>][n][XH + 1] = kJac[b][<<0, 0, 2>>][n][XH + 1]

\* linear shape-function tables with arbitrary entries, at two nodes
AnyNlin == {<<<<a, b>>, <<c, d>>>> : a \in {-1, 2}, b \in {-1, 2}, c \in {-1, 2}, d \in {-1, 2}}

\* a box whose 8 vertices sit at the same point
OnesBox == <<<<1, 1, 1, 1, 1, 1, 1, 1>>, <<1, 1, 1, 1, 1, 1, 1, 1>>, <<1, 1, 1, 1, 1, 1, 1, 1>>>>

\* C24: after one coordinate component of the 8 vertices of an element has
\* been shifted by a constant, the calls return the Jacobians and the volumes
\* they returned before; in each branch of hex_jacobian_component the vertex
\* weights sum to zero at every node, whatever Nlin holds
C24_TranslationInvariant ==
  /\ kEdit = "translate" =>
       /\ "plain" \in kRan => (kJac = kPrev.jac /\ kVol = kPrev.vol)
       /\ "weighted" \in kRan => kVolW = kPrev.volW
  /\ (kEdit = "none" /\ kRan = {}) =>
       \A Nlin \in AnyNlin \cup {kNlin.Nlin} : \A dj \in Comps :
         \A k \in 0 .. 1, j \in 0 .. 1, i \in 0 .. 1 :
           hex_jacobian_component(dj, XH, Nlin, OnesBox, k, j, i) = 0

\* both overloads have returned again after an element of non-zero volume
\* was translated
C24_Witness ==
  /\ kEdit = "translate"
  /\ Evaluated
  /\ kCoords # << >>
  /\ \E s \in VolumeSlots : kVol[s[1]][s[2]][s[3]] # 0
  /\ kJac = kPrev.jac

\* C25: the weighted overload returns alpha times what the unweighted one
\* returns at every batch, node and lane, the same view when alpha is one
\* everywhere, and both views have the batch extent of the coordinates
C25_OverloadsAgree ==
  Evaluated =>
    /\ DOMAIN kVol = DOMAIN kCoords
    /\ DOMAIN kVolW = DOMAIN kCoords
    /\ \A s \in VolumeSlots :
         kVolW[s[1]][s[2]][s[3]] = kAlpha[s[1]][s[2]][s[3]] * kVol[s[1]][s[2]][s[3]]
    /\ (\A s \in VolumeSlots : kAlpha[s[1]][s[2]][s[3]] = 1) => kVolW = kVol

\* both overloads have returned on an alpha that varies and hexahedra of
\* non-zero volume
C25_Witness ==
  /\ Evaluated
  /\ \E s \in VolumeSlots :
       /\ kAlpha[s[1]][s[2]][s[3]] > 1
       /\ kVol[s[1]][s[2]][s[3]] # 0
       /\ kVolW[s[1]][s[2]][s[3]] # kVol[s[1]][s[2]][s[3]]

-----------------------------------------------------------------------------
(* Properties of actuator_FAST_parse *)

\* the parse has ended, by a return or by an exception
ParseEnded == parsePc \in {"returned", "error"}

\* the keys of the actuator node failed: an exception before any turbine
KeysFailed == y_node.keys # << >> /\ y_node.turbine = << >> /\ parsePc = "error"

\* the keys of the actuator node have been read without an exception
KeysPassed == y_node.keys # << >> /\ ~KeysFailed

\* the last Turbine<i> node looked up was there and readTurbineData returned
TurbinePassed == y_node.turbine # << >> /\ parsePc # "error"

\* a return needs the actuator node, a positive count and every turbine;
\* the turbines are looked up in ascending order and none after a failure
ParseOrder ==
  /\ parsePc = "returned" =>
       /\ y_node.actuator = <<TRUE>>
       /\ actMeta.numberOfActuators > 0
       /\ parseErr = ""
       /\ turbinesRead = [q \in 1 .. actMeta.numberOfActuators |-> <<q - 1, TRUE>>]
  /\ \A q \in 1 .. Len(turbinesRead) :
       /\ turbinesRead[q][1] = q - 1
       /\ q < Len(turbinesRead) => turbinesRead[q][2]
  /\ Len(turbinesRead) = IF y_node.turbine # << >> /\ parsePc = "error" THEN iTurb + 1 ELSE iTurb
  /\ (y_node.turbine # << >> /\ ~y_node.turbine[1].present) =>
       /\ parsePc = "error"
       /\ parseErr = "Node for Turbine not present in input file or I cannot read it"

\* C26 as stated: with a turbine count of 0 or less the parse ends with the
\* error "Number of turbines <= 0", whatever else the input holds
C26_ParseOutcomeAsStated ==
  /\ ParseOrder
  /\ (ParseEnded /\ actMeta.numberOfActuators <= 0) => parseErr = "Number of turbines <= 0 "

\* C26: the parse returns only with the actuator node, a positive turbine
\* count and every Turbine<i> read in ascending order, the first missing or
\* invalid one ending it; the actuator node is tested first, so a count of 0
\* or less raises "Number of turbines <= 0" when the node is there and the
\* missing-node error when it is not
C26_ParseOutcome ==
  /\ ParseOrder
  /\ (ParseEnded /\ actMeta.numberOfActuators <= 0 /\ y_node.actuator = <<TRUE>>) =>
       parseErr = "Number of turbines <= 0 "
  /\ (ParseEnded /\ y_node.actuator = <<FALSE>>) =>
       parseErr = "actuator argument is missing from yaml node passed to actuator_FAST_parse"

\* the second turbine of two is missing: the first was read, the parse ended
\* with the error of the second
C26_Witness ==
  /\ parsePc = "error"
  /\ actMeta.numberOfActuators >= 2
  /\ turbinesRead = <<<<0, TRUE>>, <<1, FALSE>>>>
  /\ iTurb = 1

\* C27: "init" with t_start 0 sets fi.simStart to init and with another
\* t_start raises; "trueRestart" and "restartDriverInitFAST" set their mode
\* for any t_start; another string raises nothing and leaves fi.simStart as
\* it was; fi.simStart becomes init in no other case
C27_SimStart ==
  (y_node.keys # << >> /\ y_node.keys[1].t_start # << >> /\ y_node.keys[1].simStart # << >>) =>
    LET keys == y_node.keys[1]
        simStartType == keys.simStart[1]
        tStart == keys.t_start[1]
    IN /\ (simStartType = "init" /\ tStart # 0) =>
            /\ KeysFailed
            /\ parseErr = "actuators: simStart type not consistent with start time for FAST"
       /\ (simStartType = "init" /\ tStart = 0 /\ keys.fast_keys) =>
            (KeysPassed /\ actMetaFAST.fi.simStart = "init")
       /\ (simStartType \in {"trueRestart", "restartDriverInitFAST"} /\ keys.fast_keys) =>
            (KeysPassed /\ actMetaFAST.fi.simStart = simStartType)
       /\ (simStartType \notin SimStartTypes /\ keys.fast_keys) =>
            (KeysPassed /\ actMetaFAST.fi.simStart = actMeta.fi.simStart)
       /\ (actMetaFAST.fi.simStart = "init" /\ actMeta.fi.simStart # "init") =>
            (simStartType = "init" /\ tStart = 0)

\* an unknown simStart string has been read with a non-zero t_start and the
\* mode is the one from before the parse
C27_Witness ==
  /\ KeysPassed
  /\ y_node.keys[1].simStart = <<"restart">>
  /\ y_node.keys[1].t_start = <<5>>
  /\ actMetaFAST.fi.simStart = "trueRestart"
  /\ parsePc = "turbines"

\* the points of the turbines below i
RECURSIVE PointsBelow(_, _)
PointsBelow(meta, i) ==
  IF i <= 0 THEN 0 ELSE meta.numPointsTurbine[i - 1] + PointsBelow(meta, i - 1)

\* C28: for every turbine read, numPointsTurbine_ is 1 + numForcePtsTwr +
\* numForcePtsBlade * nBlades_ and maxNumPntsPerBlade_ is at least its
\* numForcePtsBlade; numPointsTotal_ is its value before the parse plus the
\* points of the turbines read (all of them after a return)
C28_PointAccounting ==
  parsePc \in {"turbines", "returned"} =>
    /\ parsePc = "returned" => iTurb = actMeta.numberOfActuators
    /\ \A i \in TurbineIds(iTurb) :
         LET data == actMetaFAST.fi.globTurbineData[i + 1]
         IN /\ actMetaFAST.numPointsTurbine[i] =
                 1 + data.numForcePtsTwr + data.numForcePtsBlade * actMetaFAST.nBlades[i]
            /\ actMetaFAST.maxNumPntsPerBlade >= data.numForcePtsBlade
    /\ actMetaFAST.numPointsTotal = actMeta.numPointsTotal + PointsBelow(actMetaFAST, iTurb)

\* a parse of two turbines with different blade counts and points has
\* returned, on a total that was not zero before
C28_Witness ==
  /\ parsePc = "returned"
  /\ actMeta.numberOfActuators >= 2
  /\ actMeta.numPointsTotal = 7
  /\ actMetaFAST.nBlades[0] # actMetaFAST.nBlades[1]
  /\ actMetaFAST.fi.globTurbineData[1].numForcePtsBlade
       < actMetaFAST.fi.globTurbineData[2].numForcePtsBlade
  /\ actMetaFAST.numPointsTotal = 7 + 9 + 21

\* every component is a number greater than zero
AllPositive(eps) == \A j \in 1 .. 3 : eps[j] # NaN /\ eps[j] > 0

\* C29: for every turbine readTurbineData returned on, the three components
\* of epsilon_ (and of epsilonChord_ for AdvActLineFASTNGP) are greater than
\* zero; a node with both epsilon and epsilon_chord is refused; without
\* epsilon_tower the tower epsilon is epsilon_
C29_EpsilonValidated ==
  /\ parsePc \in {"turbines", "returned"} =>
       \A i \in TurbineIds(iTurb) :
         /\ AllPositive(actMetaFAST.epsilon[i])
         /\ actMetaFAST.actuatorType = "AdvActLineFASTNGP" =>
              AllPositive(actMetaFAST.epsilonChord[i])
  /\ y_node.turbine # << >> =>
       LET turbNode == y_node.turbine[1]
       IN /\ (turbNode.present /\ turbNode.epsilon # << >> /\ turbNode.epsilon_chord # << >>) =>
               parsePc = "error"
          /\ (TurbinePassed /\ turbNode.epsilon_tower = << >>) =>
               actMetaFAST.epsilonTower[iTurb - 1] = actMetaFAST.epsilon[iTurb - 1]

\* C30: for every turbine readTurbineData returned on, nBlades_ is 2 or 3,
\* 3 when num_blades is absent and 3 for a disk model, where
\* useUniformAziSampling_ is true exactly when nPointsSwept_ is not zero; a
\* node with another num_blades is refused
C30_BladeCount ==
  /\ parsePc \in {"turbines", "returned"} =>
       \A i \in TurbineIds(iTurb) :
         /\ actMetaFAST.nBlades[i] \in {2, 3}
         /\ is_disk(actMetaFAST) =>
              /\ actMetaFAST.nBlades[i] = 3
              /\ actMetaFAST.useUniformAziSampling[i] = (actMetaFAST.nPointsSwept[i] # 0)
  /\ y_node.turbine # << >> =>
       LET turbNode == y_node.turbine[1]
       IN /\ (TurbinePassed /\ turbNode.num_blades = << >>) => actMetaFAST.nBlades[iTurb - 1] = 3
          /\ (TurbinePassed /\ turbNode.num_blades # << >>) =>
               actMetaFAST.nBlades[iTurb - 1] = turbNode.num_blades[1]
          /\ (turbNode.present /\ turbNode.num_blades # << >>
                /\ turbNode.num_blades[1] \notin {2, 3}) => parsePc = "error"
          /\ (turbNode.present /\ is_disk(actMetaFAST) /\ turbNode.num_blades = <<2>>) =>
               parsePc = "error"

\* a disk model has returned on a turbine with swept points and one without
C30_Witness ==
  /\ parsePc = "returned"
  /\ is_disk(actMetaFAST)
  /\ actMeta.numberOfActuators >= 2
  /\ actMetaFAST.useUniformAziSampling[0]
  /\ ~actMetaFAST.useUniformAziSampling[1]
  /\ actMetaFAST.nPointsSwept[0] = 5
  /\ actMetaFAST.nBlades[1] = 3

====
